---- MODULE Spec2Model ----
(***************************************************************************)
(* A model of the deal pricing engine of Stock-App: the cash-flow engine   *)
(* (src/src/pricer/model.py), the payback and IRR solvers                  *)
(* (src/src/pricer/payback.py), the viability evaluation and the lazily    *)
(* created analyzer (src/src/deal_analysis.py).                            *)
(*                                                                         *)
(* Numbers.  The program computes in double precision; the model computes  *)
(* in integers.  Money is a whole number of units: dollars for the         *)
(* cash-flow engine, cents for the payback solver and ten dollars for the  *)
(* IRR solver, each finer than the tolerance of the search it serves.  A   *)
(* share or a decay multiplier is a whole number of percent (0.25 is 25),  *)
(* a rate of return is a whole number of permille (0.15 is 150).  x *      *)
(* share is                                                                *)
(* (x * share) \div 100, and the inputs of the exact claims are drawn so   *)
(* that this division leaves no remainder.  An optional value (None or a   *)
(* number) is a sequence of length at most one.                            *)
(***************************************************************************)
EXTENDS Integers, Sequences, FiniteSets, TLC

VARIABLES
    inputs,            \* the request: deal type, deal percent, recoupability, advance share
    engine,            \* the CashFlowEngine instance (its fields)
    call,              \* the last engine call and its arguments
    cash_flows,        \* rows returned by the last call, if it was compute_cash_flows_*
    label_cash_flows,  \* list returned by the last call, if it was get_label_cash_flows
    actual_cf,         \* series built by the last call, if it was a trial of the IRR cost search
    g_analyzer,        \* the module global _analyzer: 0 (None) or an analyzer's id
    analyzers,         \* the DealAnalyzer instances created: id -> its two loader fields
    decay_loads,       \* how many times DecayLoader(...) has loaded the calibration table
    ppu_loads,         \* how many times PPULoader(...) has loaded the rate table
    threads,           \* each calling thread: its position and its local variables
    request,           \* the request given to a solver: revenue, decay, deal terms
    payback_rec,       \* the PaybackRecommendation computed for the request
    irr_recs,          \* the IRRRecommendations computed for the request, one per target
    viability,         \* the label metrics of the viability evaluation of the request
    curve_args,        \* the arguments of a call that builds a decay curve
    curve_result,      \* what that call returned
    weekly_result,     \* the weekly revenue curve of decay_weekly.py being built
    analysis,          \* an analysis request, the position reached and the outcome
    ppu_loader,        \* the PPULoader instance (its fields)
    rate_call          \* the last call of the PPULoader, its arguments and its outcome

engineVars == <<inputs, engine, call, cash_flows, label_cash_flows, actual_cf>>

rateVars == <<ppu_loader, rate_call>>

loaderVars == <<g_analyzer, analyzers, decay_loads, ppu_loads, threads, rateVars>>

solverVars == <<request, payback_rec, irr_recs, viability>>

projectionVars == <<curve_args, curve_result, weekly_result, analysis>>

vars == <<engineVars, loaderVars, solverVars, projectionVars>>

-----------------------------------------------------------------------------
(* Arithmetic helpers *)

Min(a, b) == IF a < b THEN a ELSE b

Max(a, b) == IF a > b THEN a ELSE b

\* x * p for a share p in percent
PctOf(p, x) == (x * p) \div 100

None == <<>>

Some(x) == <<x>>

RECURSIVE SumSeq(_)
SumSeq(s) == IF s = <<>> THEN 0 ELSE Head(s) + SumSeq(Tail(s))

-----------------------------------------------------------------------------
(* Bounds of the inputs *)

\* year-1 gross revenue is a multiple of Year1Step dollars, up to MaxYear1Steps
MaxYear1Steps == 2

\* trial costs are tenths of the ten-year gross, up to MaxCostTenths tenths
MaxCostTenths == 12

\* years of the projection: range(1, 11)
NumYears == 10

Year1Step == 4 * 1000

Year1Revs == {Year1Step * k : k \in 0..MaxYear1Steps}

\* cumulative multipliers relative to year 1, in percent
DecayProfiles ==
    { <<100, 60, 50, 40, 30, 30, 20, 20, 20, 10>>,
      <<100, 100, 90, 90, 80, 80, 70, 70, 60, 60>> }

DealPercents == {0, 20, 25, 50, 80, 100}

DealTypes == {"distribution", "profit_split", "royalty"}

-----------------------------------------------------------------------------
(* src/src/pricer/model.py *)

compute_label_share(deal_type, deal_percent) ==
    IF deal_type = "distribution" THEN deal_percent
    ELSE IF deal_type = "profit_split" THEN deal_percent
    ELSE 100 - deal_percent

\* CashFlowEngine.__init__
CashFlowEngine(year1_total_rev, decay_multipliers, label_share, marketing_recoupable, total_deal_cost, deal_type) ==
    [ year1_total_rev      |-> year1_total_rev,
      decay_multipliers    |-> decay_multipliers,
      label_share          |-> label_share,
      artist_share         |-> 100 - label_share,
      marketing_recoupable |-> marketing_recoupable,
      total_deal_cost      |-> total_deal_cost,
      deal_type            |-> deal_type ]

\* CashFlowEngine.compute_yearly_revenues
compute_yearly_revenues(self) ==
    [ year \in 1..NumYears |->
        [ year       |-> year,
          multiplier |-> self.decay_multipliers[year],
          gross_rev  |-> PctOf(self.decay_multipliers[year], self.year1_total_rev) ] ]

Row(yr, label_cash_in, artist_pay) ==
    [ year          |-> yr.year,
      multiplier    |-> yr.multiplier,
      gross_rev     |-> yr.gross_rev,
      label_cash_in |-> label_cash_in,
      artist_pay    |-> artist_pay ]

\* CashFlowEngine.compute_cash_flows_no_recoup
compute_cash_flows_no_recoup(self) ==
    LET revs == compute_yearly_revenues(self)
    IN  [ y \in 1..NumYears |->
            Row(revs[y], PctOf(self.label_share, revs[y].gross_rev),
                         PctOf(self.artist_share, revs[y].gross_rev)) ]

\* CashFlowEngine._compute_royalty_cash_flows
compute_royalty_cash_flows(self) ==
    LET revs == compute_yearly_revenues(self)
    IN  [ y \in 1..NumYears |->
            Row(revs[y], PctOf(self.label_share, revs[y].gross_rev),
                         PctOf(self.artist_share, revs[y].gross_rev)) ]

\* A mutated year of the funded distribution loop: the whole gross of the
\* year is taken off the balance, also when it exceeds the balance.
FundedYear_WholeGrossRecouped(self, unrecouped, gross_rev) ==
    IF unrecouped > 0
    THEN [ unrecouped    |-> unrecouped - gross_rev,
           label_cash_in |-> gross_rev,
           artist_pay    |-> 0 ]
    ELSE [ unrecouped    |-> unrecouped,
           label_cash_in |-> PctOf(self.label_share, gross_rev),
           artist_pay    |-> PctOf(self.artist_share, gross_rev) ]

\* A mutated year of the funded distribution loop: the artist is paid the
\* normal share while the label also keeps 100% of gross.
FundedYear_ArtistPaid(self, unrecouped, gross_rev) ==
    IF unrecouped > 0
    THEN [ unrecouped    |-> unrecouped - Min(gross_rev, unrecouped),
           label_cash_in |-> gross_rev,
           artist_pay    |-> PctOf(self.artist_share, gross_rev) ]
    ELSE [ unrecouped    |-> unrecouped,
           label_cash_in |-> PctOf(self.label_share, gross_rev),
           artist_pay    |-> PctOf(self.artist_share, gross_rev) ]

\* One iteration of the loop of _compute_funded_distribution_cash_flows:
\* the balance after the year and the year's label and artist amounts.
FundedYear(self, unrecouped, gross_rev) ==
    IF unrecouped > 0
    THEN [ unrecouped    |-> unrecouped - Min(gross_rev, unrecouped),
           label_cash_in |-> gross_rev,
           artist_pay    |-> 0 ]
    ELSE [ unrecouped    |-> unrecouped,
           label_cash_in |-> PctOf(self.label_share, gross_rev),
           artist_pay    |-> PctOf(self.artist_share, gross_rev) ]

\* The state of the loop of _compute_funded_distribution_cash_flows after
\* its first k iterations: the unrecouped balance and the rows appended.
RECURSIVE FundedLoop(_, _, _)
FundedLoop(self, total_cost, k) ==
    IF k = 0
    THEN [ unrecouped |-> total_cost, results |-> <<>> ]
    ELSE LET prev == FundedLoop(self, total_cost, k - 1)
             yr   == compute_yearly_revenues(self)[k]
             step == FundedYear(self, prev.unrecouped, yr.gross_rev)
         IN  [ unrecouped |-> step.unrecouped,
               results    |-> Append(prev.results,
                                     Row(yr, step.label_cash_in, step.artist_pay)) ]

\* CashFlowEngine._compute_funded_distribution_cash_flows
compute_funded_distribution_cash_flows(self, total_cost) ==
    FundedLoop(self, total_cost, NumYears).results

\* total_revenue of _compute_profit_split_cash_flows
TotalRevenue(self) ==
    LET revs == compute_yearly_revenues(self)
    IN  SumSeq([ y \in 1..NumYears |-> revs[y].gross_rev ])

\* A mutated expense: every year bears the whole cost.
YearExpense_WholeCost(gross_rev, total_revenue, total_cost) == total_cost

\* year_expense of _compute_profit_split_cash_flows
YearExpense(gross_rev, total_revenue, total_cost) ==
    IF total_revenue > 0
    THEN (gross_rev * total_cost) \div total_revenue
    ELSE total_cost \div 10

\* A mutated net profit: the expense is deducted without the floor at zero.
NetProfit_NoFloor(gross_rev, year_expense) == gross_rev - year_expense

\* net_profit of _compute_profit_split_cash_flows
NetProfit(gross_rev, year_expense) == Max(0, gross_rev - year_expense)

\* CashFlowEngine._compute_profit_split_cash_flows
compute_profit_split_cash_flows(self, total_cost) ==
    LET revs          == compute_yearly_revenues(self)
        total_revenue == TotalRevenue(self)
    IN  [ y \in 1..NumYears |->
            LET net_profit ==
                    NetProfit(revs[y].gross_rev,
                              YearExpense(revs[y].gross_rev, total_revenue, total_cost))
            IN  Row(revs[y], PctOf(self.label_share, net_profit),
                             PctOf(self.artist_share, net_profit)) ]

\* A mutated dispatch: a royalty deal is run through the recoupment waterfall.
compute_cash_flows_with_recoup_RoyaltyRecoups(self, total_cost) ==
    IF self.deal_type = "profit_split"
    THEN compute_profit_split_cash_flows(self, total_cost)
    ELSE compute_funded_distribution_cash_flows(self, total_cost)

\* CashFlowEngine.compute_cash_flows_with_recoup
compute_cash_flows_with_recoup(self, total_cost) ==
    IF self.deal_type = "royalty"
    THEN compute_royalty_cash_flows(self)
    ELSE IF self.deal_type = "profit_split"
    THEN compute_profit_split_cash_flows(self, total_cost)
    ELSE compute_funded_distribution_cash_flows(self, total_cost)

\* CashFlowEngine.get_label_cash_flows; total_cost and advance_amount are
\* optional
get_label_cash_flows(self, total_cost, advance_amount) ==
    LET cost    == IF total_cost # None THEN total_cost[1] ELSE self.total_deal_cost
        advance == IF advance_amount # None THEN advance_amount[1] ELSE cost
        recoup_amount == IF self.marketing_recoupable THEN cost ELSE advance
        flows   == IF recoup_amount > 0
                   THEN compute_cash_flows_with_recoup(self, recoup_amount)
                   ELSE compute_cash_flows_no_recoup(self)
    IN  [ y \in 1..NumYears |-> flows[y].label_cash_in ]

-----------------------------------------------------------------------------
(* src/src/pricer/payback.py: one trial of the cost search of              *)
(* compute_irr_recommendation                                              *)

\* The distribution branch of the trial: the loop state after k years.
RECURSIVE TrialDistributionLoop(_, _, _, _)
TrialDistributionLoop(annual_gross, deal_pct, cost_mid, k) ==
    IF k = 0
    THEN [ unrecouped |-> cost_mid, actual_cf |-> <<>> ]
    ELSE LET prev    == TrialDistributionLoop(annual_gross, deal_pct, cost_mid, k - 1)
             gross_y == annual_gross[k]
         IN  IF prev.unrecouped > 0
             THEN [ unrecouped |-> prev.unrecouped - gross_y,
                    actual_cf  |-> Append(prev.actual_cf, gross_y) ]
             ELSE [ unrecouped |-> prev.unrecouped,
                    actual_cf  |-> Append(prev.actual_cf, PctOf(deal_pct, gross_y)) ]

\* actual_cf of compute_irr_recommendation for the trial cost cost_mid
TrialCashFlows(deal_type, annual_gross, deal_pct, cost_mid) ==
    LET total_gross == SumSeq(annual_gross)
    IN  IF deal_type = "royalty"
        THEN [ y \in 1..Len(annual_gross) |-> PctOf(deal_pct, annual_gross[y]) ]
        ELSE IF deal_type = "profit_split"
        THEN [ y \in 1..Len(annual_gross) |->
                 LET expense_y == IF total_gross > 0
                                  THEN (cost_mid * annual_gross[y]) \div total_gross
                                  ELSE 0
                 IN  PctOf(deal_pct, Max(0, annual_gross[y] - expense_y)) ]
        ELSE TrialDistributionLoop(annual_gross, deal_pct, cost_mid,
                                   Len(annual_gross)).actual_cf

\* annual_gross of analyze_deal: the gross column of the base cash flows
AnnualGross(self) ==
    LET base == compute_cash_flows_no_recoup(self)
    IN  [ y \in 1..NumYears |-> base[y].gross_rev ]

-----------------------------------------------------------------------------
(* src/src/deal_analysis.py: get_analyzer and DealAnalyzer._ensure_loaders, *)
(* called by several threads.  Neither takes a lock, so a thread can be    *)
(* preempted between any two of its reads and writes of the global         *)
(* _analyzer and of the analyzer's _decay_loader and _ppu_loader fields;   *)
(* constructing a loader reads a file and is a step of its own.            *)

\* number of threads making their first analysis call
NumThreads == 2

Threads == 1..NumThreads

\* DealAnalyzer.__init__: both loaders are None (0)
DealAnalyzer == [ decay_loader |-> 0, ppu_loader |-> 0 ]

ThreadStart == [ pc |-> "get_analyzer", analyzer |-> 0, fresh |-> 0, result |-> <<>> ]

\* no rate table is built and no call of it is made
RatesIdle ==
    /\ ppu_loader = <<>>
    /\ rate_call = <<>>

LoaderIdle ==
    /\ g_analyzer = 0
    /\ analyzers = <<>>
    /\ decay_loads = 0
    /\ ppu_loads = 0
    /\ threads = <<>>
    /\ RatesIdle

LoaderInit ==
    /\ g_analyzer = 0
    /\ analyzers = <<>>
    /\ decay_loads = 0
    /\ ppu_loads = 0
    /\ threads = [ t \in Threads |-> ThreadStart ]
    /\ RatesIdle

At(t, pc) == threads[t].pc = pc

Goto(t, pc) == [ threads EXCEPT ![t].pc = pc ]

\* get_analyzer: if _analyzer is None
CheckAnalyzer(t) ==
    /\ At(t, "get_analyzer")
    /\ threads' = Goto(t, IF g_analyzer = 0 THEN "new_analyzer" ELSE "return_analyzer")
    /\ UNCHANGED <<g_analyzer, analyzers, decay_loads, ppu_loads, rateVars, engineVars, solverVars, projectionVars>>

\* get_analyzer: DealAnalyzer()
NewAnalyzer(t) ==
    /\ At(t, "new_analyzer")
    /\ analyzers' = Append(analyzers, DealAnalyzer)
    /\ threads' = [ threads EXCEPT ![t].pc = "store_analyzer",
                                   ![t].fresh = Len(analyzers) + 1 ]
    /\ UNCHANGED <<g_analyzer, decay_loads, ppu_loads, rateVars, engineVars, solverVars, projectionVars>>

\* get_analyzer: _analyzer = <the new instance>
StoreAnalyzer(t) ==
    /\ At(t, "store_analyzer")
    /\ g_analyzer' = threads[t].fresh
    /\ threads' = Goto(t, "return_analyzer")
    /\ UNCHANGED <<analyzers, decay_loads, ppu_loads, rateVars, engineVars, solverVars, projectionVars>>

\* get_analyzer: return _analyzer
ReturnAnalyzer(t) ==
    /\ At(t, "return_analyzer")
    /\ threads' = [ threads EXCEPT ![t].pc = "check_decay",
                                   ![t].analyzer = g_analyzer ]
    /\ UNCHANGED <<g_analyzer, analyzers, decay_loads, ppu_loads, rateVars, engineVars, solverVars, projectionVars>>

\* _ensure_loaders: if self._decay_loader is None
CheckDecayLoader(t) ==
    /\ At(t, "check_decay")
    /\ threads' = Goto(t, IF analyzers[threads[t].analyzer].decay_loader = 0
                          THEN "load_decay" ELSE "check_ppu")
    /\ UNCHANGED <<g_analyzer, analyzers, decay_loads, ppu_loads, rateVars, engineVars, solverVars, projectionVars>>

\* _ensure_loaders: DecayLoader(self.decay_path) loads the calibration table
LoadDecay(t) ==
    /\ At(t, "load_decay")
    /\ decay_loads' = decay_loads + 1
    /\ threads' = [ threads EXCEPT ![t].pc = "store_decay",
                                   ![t].fresh = decay_loads + 1 ]
    /\ UNCHANGED <<g_analyzer, analyzers, ppu_loads, rateVars, engineVars, solverVars, projectionVars>>

\* _ensure_loaders: self._decay_loader = <the new loader>
StoreDecay(t) ==
    /\ At(t, "store_decay")
    /\ analyzers' = [ analyzers EXCEPT
                        ![threads[t].analyzer].decay_loader = threads[t].fresh ]
    /\ threads' = Goto(t, "check_ppu")
    /\ UNCHANGED <<g_analyzer, decay_loads, ppu_loads, rateVars, engineVars, solverVars, projectionVars>>

\* _ensure_loaders: if self._ppu_loader is None
CheckPpuLoader(t) ==
    /\ At(t, "check_ppu")
    /\ threads' = Goto(t, IF analyzers[threads[t].analyzer].ppu_loader = 0
                          THEN "load_ppu" ELSE "return_loaders")
    /\ UNCHANGED <<g_analyzer, analyzers, decay_loads, ppu_loads, rateVars, engineVars, solverVars, projectionVars>>

\* _ensure_loaders: PPULoader(self.ppu_path) loads the rate table
LoadPpu(t) ==
    /\ At(t, "load_ppu")
    /\ ppu_loads' = ppu_loads + 1
    /\ threads' = [ threads EXCEPT ![t].pc = "store_ppu",
                                   ![t].fresh = ppu_loads + 1 ]
    /\ UNCHANGED <<g_analyzer, analyzers, decay_loads, rateVars, engineVars, solverVars, projectionVars>>

\* _ensure_loaders: self._ppu_loader = <the new loader>
StorePpu(t) ==
    /\ At(t, "store_ppu")
    /\ analyzers' = [ analyzers EXCEPT
                        ![threads[t].analyzer].ppu_loader = threads[t].fresh ]
    /\ threads' = Goto(t, "return_loaders")
    /\ UNCHANGED <<g_analyzer, decay_loads, ppu_loads, rateVars, engineVars, solverVars, projectionVars>>

\* _ensure_loaders: return self._decay_loader, self._ppu_loader
ReturnLoaders(t) ==
    /\ At(t, "return_loaders")
    /\ threads' = [ threads EXCEPT
                      ![t].pc = "done",
                      ![t].result = << analyzers[threads[t].analyzer].decay_loader,
                                       analyzers[threads[t].analyzer].ppu_loader >> ]
    /\ UNCHANGED <<g_analyzer, analyzers, decay_loads, ppu_loads, rateVars, engineVars, solverVars, projectionVars>>

SolverIdle ==
    /\ request = <<>>
    /\ payback_rec = <<>>
    /\ irr_recs = <<>>
    /\ viability = <<>>

AnalysisIdle ==
    /\ weekly_result = <<>>
    /\ analysis = <<>>

ProjectionIdle ==
    /\ curve_args = <<>>
    /\ curve_result = <<>>
    /\ AnalysisIdle

LoaderNext ==
    \E t \in Threads :
    \/ CheckAnalyzer(t)
    \/ NewAnalyzer(t)
    \/ StoreAnalyzer(t)
    \/ ReturnAnalyzer(t)
    \/ CheckDecayLoader(t)
    \/ LoadDecay(t)
    \/ StoreDecay(t)
    \/ CheckPpuLoader(t)
    \/ LoadPpu(t)
    \/ StorePpu(t)
    \/ ReturnLoaders(t)

EngineIdle ==
    /\ inputs = <<>>
    /\ engine = <<>>
    /\ call = <<>>
    /\ cash_flows = <<>>
    /\ label_cash_flows = <<>>
    /\ actual_cf = <<>>

InitLoaders == LoaderInit /\ EngineIdle /\ SolverIdle /\ ProjectionIdle

SpecLoaders == InitLoaders /\ [][LoaderNext]_vars

\* C6: when several threads make their first analysis call concurrently, the
\* calibration table and the rate table are each loaded exactly once, a
\* single analyzer instance is created, and all callers end up with the same
\* loader instances.
C6_SingleFlight ==
    (\A t \in Threads : threads[t].pc = "done") =>
        /\ decay_loads = 1
        /\ ppu_loads = 1
        /\ Len(analyzers) = 1
        /\ \A t, u \in Threads : threads[t].result = threads[u].result

-----------------------------------------------------------------------------
(* The cash-flow engine as a state machine: an engine is constructed for a *)
(* request, then one of its operations is called with arguments drawn from *)
(* bounded sets.  The operations do not change the engine, so one call per *)
(* behaviour shows all of them.                                            *)

CostStep == 10 * 100

\* the costs the operations are called with: tenths of the ten-year gross
\* (and beyond it), or multiples of CostStep when the gross is all zero
TrialCosts(self) ==
    IF TotalRevenue(self) > 0
    THEN { (TotalRevenue(self) * k) \div 10 : k \in 0..MaxCostTenths }
    ELSE { CostStep * k : k \in 0..MaxCostTenths }

MaxTrialCost(self) ==
    CHOOSE c \in TrialCosts(self) : \A d \in TrialCosts(self) : d <= c

NoCall == [ op |-> "none", total_cost |-> None, advance_amount |-> None ]

EngineInit ==
    /\ inputs \in [ deal_type : DealTypes, deal_percent : DealPercents,
                    marketing_recoupable : BOOLEAN ]
    /\ \E year1_total_rev \in Year1Revs, decay_multipliers \in DecayProfiles :
         engine = CashFlowEngine(year1_total_rev, decay_multipliers,
                     compute_label_share(inputs.deal_type, inputs.deal_percent),
                     inputs.marketing_recoupable, 0, inputs.deal_type)
    /\ call = NoCall
    /\ cash_flows = <<>>
    /\ label_cash_flows = <<>>
    /\ actual_cf = <<>>

ComputeCashFlowsWithRecoup ==
    /\ call = NoCall
    /\ \E total_cost \in TrialCosts(engine) :
       /\ cash_flows' = compute_cash_flows_with_recoup(engine, total_cost)
       /\ call' = [ op |-> "with_recoup", total_cost |-> Some(total_cost),
                    advance_amount |-> None ]
       /\ label_cash_flows' = <<>>
       /\ actual_cf' = <<>>
       /\ UNCHANGED <<inputs, engine, loaderVars, solverVars, projectionVars>>

ComputeCashFlowsNoRecoup ==
    /\ call = NoCall
    /\ cash_flows' = compute_cash_flows_no_recoup(engine)
    /\ call' = [ op |-> "no_recoup", total_cost |-> None, advance_amount |-> None ]
    /\ label_cash_flows' = <<>>
    /\ actual_cf' = <<>>
    /\ UNCHANGED <<inputs, engine, loaderVars, solverVars, projectionVars>>

GetLabelCashFlows ==
    /\ call = NoCall
    /\ \E total_cost \in {None, Some(MaxTrialCost(engine))},
          advance_amount \in {None} \cup { Some(a) : a \in TrialCosts(engine) } :
       /\ label_cash_flows' = get_label_cash_flows(engine, total_cost, advance_amount)
       /\ call' = [ op |-> "label_flows", total_cost |-> total_cost,
                    advance_amount |-> advance_amount ]
       /\ cash_flows' = <<>>
       /\ actual_cf' = <<>>
       /\ UNCHANGED <<inputs, engine, loaderVars, solverVars, projectionVars>>

IrrTrial ==
    /\ call = NoCall
    /\ \E cost_mid \in TrialCosts(engine) :
       /\ actual_cf' = TrialCashFlows(engine.deal_type, AnnualGross(engine),
                                      engine.label_share, cost_mid)
       /\ call' = [ op |-> "irr_trial", total_cost |-> Some(cost_mid),
                    advance_amount |-> None ]
       /\ cash_flows' = <<>>
       /\ label_cash_flows' = <<>>
       /\ UNCHANGED <<inputs, engine, loaderVars, solverVars, projectionVars>>

Next ==
    \/ ComputeCashFlowsWithRecoup
    \/ ComputeCashFlowsNoRecoup
    \/ GetLabelCashFlows
    \/ IrrTrial

Init == EngineInit /\ LoaderIdle /\ SolverIdle /\ ProjectionIdle

Spec == Init /\ [][Next]_vars

-----------------------------------------------------------------------------
(* Claims about the cash-flow engine, checked under Spec *)

Years == 1..NumYears

\* the unrecouped balance with which year y of the funded distribution loop
\* starts, for the cost of the last call
UnrecoupedBefore(y) == FundedLoop(engine, call.total_cost[1], y - 1).unrecouped

\* C1: in the Funded Distribution series, every year that starts with a
\* residual unrecouped amount R > 0 has
\* label_in = min(gross, R) + label_share * max(0, gross - R),
\* artist_out = (1 - label_share) * max(0, gross - R), and R decreases by
\* min(gross, R); the artist is paid its share of the excess in the year in
\* which recoupment completes.
C1_AnnualWaterfall ==
    (call.op = "with_recoup" /\ engine.deal_type = "distribution") =>
        \A y \in Years :
            LET R     == UnrecoupedBefore(y)
                gross == cash_flows[y].gross_rev
            IN  R > 0 =>
                  /\ cash_flows[y].label_cash_in =
                        Min(gross, R) + PctOf(engine.label_share, Max(0, gross - R))
                  /\ cash_flows[y].artist_pay =
                        PctOf(100 - engine.label_share, Max(0, gross - R))
                  /\ UnrecoupedBefore(y + 1) = R - Min(gross, R)

\* C2: for a Funded Distribution deal with marketing_recoupable = false and an
\* advance with 0 <= advance <= sum of gross, the ten label inflows sum to
\* advance + label_share * (sum of gross - advance).
C2_LabelInflowSum ==
    (/\ call.op = "label_flows"
     /\ engine.deal_type = "distribution"
     /\ ~engine.marketing_recoupable
     /\ call.advance_amount # None
     /\ call.advance_amount[1] <= TotalRevenue(engine)) =>
        SumSeq(label_cash_flows) =
            call.advance_amount[1]
              + PctOf(engine.label_share, TotalRevenue(engine) - call.advance_amount[1])

\* C3: for every deal type, total cost and deal percent, each of the ten rows
\* has label_in + artist_out <= gross, with equality in every year for Royalty
\* and in every post-recoup year for Funded Distribution; for Royalty the sum
\* of label_in + artist_out over the years is the sum of gross.
C3_RowsWithinGross ==
    (call.op = "with_recoup") =>
        /\ \A y \in Years :
              /\ cash_flows[y].label_cash_in + cash_flows[y].artist_pay
                    <= cash_flows[y].gross_rev
              /\ (engine.deal_type = "royalty"
                  \/ (engine.deal_type = "distribution" /\ UnrecoupedBefore(y) <= 0))
                 => cash_flows[y].label_cash_in + cash_flows[y].artist_pay
                       = cash_flows[y].gross_rev
        /\ engine.deal_type = "royalty" =>
              SumSeq([ y \in Years |->
                        cash_flows[y].label_cash_in + cash_flows[y].artist_pay ])
                = TotalRevenue(engine)

\* C3 witness: a profit split row from which an expense was deducted, so that
\* label_in + artist_out is strictly below a positive gross
C3_Witness ==
    /\ call.op = "with_recoup"
    /\ engine.deal_type = "profit_split"
    /\ \E y \in Years :
          /\ cash_flows[y].label_cash_in + cash_flows[y].artist_pay > 0
          /\ cash_flows[y].label_cash_in + cash_flows[y].artist_pay
                < cash_flows[y].gross_rev

ExpenseOf(y) ==
    YearExpense(cash_flows[y].gross_rev, TotalRevenue(engine), call.total_cost[1])

\* C5 as stated: every profit split row has
\* label_in + artist_out = max(0, gross - expense), and the ten allocated
\* expenses sum to min(total_cost, sum of gross).
C5_ExpensesCapped ==
    (call.op = "with_recoup" /\ engine.deal_type = "profit_split") =>
        /\ \A y \in Years :
              cash_flows[y].label_cash_in + cash_flows[y].artist_pay
                 = Max(0, cash_flows[y].gross_rev - ExpenseOf(y))
        /\ SumSeq([ y \in Years |-> ExpenseOf(y) ])
              = Min(call.total_cost[1], TotalRevenue(engine))

\* C5 amended: every profit split row has
\* label_in + artist_out = max(0, gross - expense); the ten allocated expenses
\* sum to total_cost, also when total_cost exceeds the ten-year gross and when
\* the gross is all zero; the amounts actually deducted from gross,
\* gross - (label_in + artist_out), sum to min(total_cost, sum of gross).
C5_ExpensesSumToCost ==
    (call.op = "with_recoup" /\ engine.deal_type = "profit_split") =>
        /\ \A y \in Years :
              cash_flows[y].label_cash_in + cash_flows[y].artist_pay
                 = Max(0, cash_flows[y].gross_rev - ExpenseOf(y))
        /\ SumSeq([ y \in Years |-> ExpenseOf(y) ]) = call.total_cost[1]
        /\ SumSeq([ y \in Years |->
                     cash_flows[y].gross_rev
                       - (cash_flows[y].label_cash_in + cash_flows[y].artist_pay) ])
              = Min(call.total_cost[1], TotalRevenue(engine))

\* C5 witness: a profit split run whose cost exceeds a positive ten-year gross
C5_Witness ==
    /\ call.op = "with_recoup"
    /\ engine.deal_type = "profit_split"
    /\ TotalRevenue(engine) > 0
    /\ call.total_cost[1] > TotalRevenue(engine)

-----------------------------------------------------------------------------
(* Rates of return (src/src/pricer/payback.py)                             *)
(*                                                                         *)
(* A rate is a whole number of permille.  A present value is computed in   *)
(* Horner form, cf1/(1+r) + cf2/(1+r)^2 + ... = (cf1 + (cf2 + ...)/(1+r))  *)
(* /(1+r), with integer division.  The program's tolerances on the net     *)
(* present value (1e-6) and on the width of the rate interval (1e-8) are   *)
(* below one unit of the model: the first reads "is zero", and a search    *)
(* ends when its interval is one permille wide, the narrowest the model    *)
(* can halve (from there on the program's iterations stay inside that      *)
(* permille).                                                              *)

\* the model's unit of a rate: 1000 permille is 100%
RateScale == 10 * 100

\* sum of cfs[k..] discounted to the start of year k at rate r
RECURSIVE PresentValue(_, _, _)
PresentValue(cfs, r, k) ==
    IF k > Len(cfs) THEN 0
    ELSE ((cfs[k] + PresentValue(cfs, r, k + 1)) * RateScale) \div (RateScale + r)

\* compute_annual_irr.npv_at_rate
npv_at_rate(total_cost, annual_cash_flows, r) ==
    PresentValue(annual_cash_flows, r, 1) - total_cost

\* compute_annual_irr: the bisection loop with n iterations left
RECURSIVE AnnualIrrLoop(_, _, _, _, _)
AnnualIrrLoop(total_cost, annual_cash_flows, r_low, r_high, n) ==
    IF n = 0 THEN (r_low + r_high) \div 2
    ELSE LET r_mid == (r_low + r_high) \div 2
             npv_mid == npv_at_rate(total_cost, annual_cash_flows, r_mid)
             low == IF npv_mid > 0 THEN r_mid ELSE r_low
             high == IF npv_mid > 0 THEN r_high ELSE r_mid
         IN  IF npv_mid = 0 THEN r_mid
             ELSE IF high - low <= 1 THEN (low + high) \div 2
             ELSE AnnualIrrLoop(total_cost, annual_cash_flows, low, high, n - 1)

\* compute_annual_irr: None, or the annual rate at which the flows repay the cost
compute_annual_irr(total_cost, annual_cash_flows) ==
    IF total_cost <= 0 THEN None
    ELSE IF SumSeq(annual_cash_flows) <= total_cost THEN None
    ELSE Some(AnnualIrrLoop(total_cost, annual_cash_flows, -500, 2 * RateScale, 100))

-----------------------------------------------------------------------------
(* Weekly cash flows and the payback solver (src/src/pricer/payback.py)    *)
(*                                                                         *)
(* In this part money is a whole number of cents, so that the $1 tolerance *)
(* of the cost search is 100 units.                                        *)

WeeksPerYear == 52

\* payback_horizon_weeks as analyze_deal passes it
PaybackHorizonWeeks == 78

\* tolerance = 1.0 dollar, in cents
PaybackTolerance == 100

\* generate_weekly_gross_series: each year's revenue spread evenly over its weeks
generate_weekly_gross_series(year1_total_rev, decay_multipliers, num_years) ==
    [ w \in 1..(num_years * WeeksPerYear) |->
        PctOf(decay_multipliers[((w - 1) \div WeeksPerYear) + 1], year1_total_rev)
            \div WeeksPerYear ]

\* compute_weekly_cashflows: recoupable_amount
RecoupableAmount(total_cost, advance_share_pct, marketing_recoupable) ==
    IF marketing_recoupable THEN total_cost ELSE PctOf(advance_share_pct, total_cost)

\* compute_weekly_cashflows: the loop over the weeks w..last, given the state
\* (remaining_recoup, weekly_label_cash_in) the earlier weeks left
RECURSIVE WeeklyLoop(_, _, _, _, _)
WeeklyLoop(weekly_gross_series, deal_pct, st, w, last) ==
    IF w > last THEN st
    ELSE LET gross == weekly_gross_series[w]
             label_base == PctOf(deal_pct, gross)
             artist_due == PctOf(100 - deal_pct, gross)
             withheld == Min(artist_due, st.remaining_recoup)
         IN  IF st.remaining_recoup > 0
             THEN WeeklyLoop(weekly_gross_series, deal_pct,
                             [ remaining_recoup |-> st.remaining_recoup - withheld,
                               weekly_label_cash_in |->
                                   Append(st.weekly_label_cash_in, label_base + withheld) ],
                             w + 1, last)
             ELSE WeeklyLoop(weekly_gross_series, deal_pct,
                             [ remaining_recoup |-> st.remaining_recoup,
                               weekly_label_cash_in |->
                                   Append(st.weekly_label_cash_in, label_base) ],
                             w + 1, last)

\* the same loop run in blocks of WeeksPerYear weeks, from block b on (the
\* recursion is then at most a block deep)
RECURSIVE WeeklyBlocks(_, _, _, _)
WeeklyBlocks(weekly_gross_series, deal_pct, st, b) ==
    LET first == (b - 1) * WeeksPerYear + 1
        last == Min(b * WeeksPerYear, Len(weekly_gross_series))
    IN  IF first > Len(weekly_gross_series) THEN st
        ELSE WeeklyBlocks(weekly_gross_series, deal_pct,
                          WeeklyLoop(weekly_gross_series, deal_pct, st, first, last),
                          b + 1)

\* compute_weekly_cashflows: the weekly label cash-in of the result
compute_weekly_cashflows(weekly_gross_series, deal_pct, total_cost, advance_share_pct, marketing_recoupable) ==
    WeeklyBlocks(weekly_gross_series, deal_pct,
                 [ remaining_recoup |-> RecoupableAmount(total_cost, advance_share_pct,
                                                         marketing_recoupable),
                   weekly_label_cash_in |-> <<>> ],
                 1).weekly_label_cash_in

\* compute_recoup_week: the scan of weeks w..last for the first week with
\* cum_cash_in >= total_cost, given the cum_cash_in of the earlier weeks
RECURSIVE ScanWeeks(_, _, _, _, _)
ScanWeeks(weekly_label_cash_in, total_cost, w, last, cum_cash_in) ==
    IF w > last THEN [ week |-> None, cum_cash_in |-> cum_cash_in ]
    ELSE LET cum == cum_cash_in + weekly_label_cash_in[w]
         IN  IF cum >= total_cost THEN [ week |-> Some(w), cum_cash_in |-> cum ]
             ELSE ScanWeeks(weekly_label_cash_in, total_cost, w + 1, last, cum)

\* the same scan run in blocks of WeeksPerYear weeks, from block b on
RECURSIVE ScanBlocks(_, _, _, _)
ScanBlocks(weekly_label_cash_in, total_cost, b, cum_cash_in) ==
    LET first == (b - 1) * WeeksPerYear + 1
        last == Min(b * WeeksPerYear, Len(weekly_label_cash_in))
        scan == ScanWeeks(weekly_label_cash_in, total_cost, first, last, cum_cash_in)
    IN  IF first > Len(weekly_label_cash_in) THEN None
        ELSE IF scan.week # None THEN scan.week
        ELSE ScanBlocks(weekly_label_cash_in, total_cost, b + 1, scan.cum_cash_in)

\* the scan stopped at the recoupable amount instead of the total cost
compute_recoup_week_AtRecoupable(weekly_gross_series, deal_pct, total_cost, advance_share_pct, marketing_recoupable) ==
    ScanBlocks(
        compute_weekly_cashflows(weekly_gross_series, deal_pct, total_cost,
                                 advance_share_pct, marketing_recoupable),
        RecoupableAmount(total_cost, advance_share_pct, marketing_recoupable), 1, 0)

\* compute_recoup_week
compute_recoup_week(weekly_gross_series, deal_pct, total_cost, advance_share_pct, marketing_recoupable) ==
    ScanBlocks(
        compute_weekly_cashflows(weekly_gross_series, deal_pct, total_cost,
                                 advance_share_pct, marketing_recoupable),
        total_cost, 1, 0)

\* sum(s[a..b])
RECURSIVE SumRange(_, _, _)
SumRange(s, a, b) ==
    IF a > b THEN 0
    ELSE IF a = b THEN s[a]
    ELSE SumRange(s, a, (a + b) \div 2) + SumRange(s, (a + b) \div 2 + 1, b)

\* compute_payback_max_cost: recoup_capacity
RecoupCapacity(weekly_gross_series, deal_pct, payback_horizon_weeks, deal_type) ==
    LET horizon_weeks == Min(payback_horizon_weeks, Len(weekly_gross_series))
        total_gross_in_horizon == SumRange(weekly_gross_series, 1, horizon_weeks)
    IN  IF deal_type = "profit_split" THEN total_gross_in_horizon
        ELSE PctOf(100 - deal_pct, total_gross_in_horizon)

\* compute_payback_max_cost: payback_week is not None and payback_week <= horizon
FeasibleCost(payback_week, payback_horizon_weeks) ==
    payback_week # None /\ payback_week[1] <= payback_horizon_weeks

\* compute_payback_max_cost: the bisection loop with n iterations left
RECURSIVE PaybackLoop(_, _, _, _, _, _, _, _, _)
PaybackLoop(weekly_gross_series, deal_pct, advance_share_pct, marketing_recoupable, payback_horizon_weeks, cost_low, cost_high, best_cost, n) ==
    IF n = 0 THEN best_cost
    ELSE LET cost_mid == (cost_low + cost_high) \div 2
             payback_week == compute_recoup_week(weekly_gross_series, deal_pct, cost_mid,
                                                 advance_share_pct, marketing_recoupable)
             feasible == FeasibleCost(payback_week, payback_horizon_weeks)
             low == IF feasible THEN cost_mid ELSE cost_low
             high == IF feasible THEN cost_high ELSE cost_mid
             best == IF feasible THEN cost_mid ELSE best_cost
         IN  IF high - low < PaybackTolerance THEN best
             ELSE PaybackLoop(weekly_gross_series, deal_pct, advance_share_pct,
                              marketing_recoupable, payback_horizon_weeks,
                              low, high, best, n - 1)

\* the solver without its search: every deal type is given its recoup capacity
compute_payback_max_cost_NoSearch(weekly_gross_series, deal_pct, advance_share_pct, marketing_recoupable, payback_horizon_weeks, deal_type) ==
    RecoupCapacity(weekly_gross_series, deal_pct, payback_horizon_weeks, deal_type)

compute_payback_max_cost(weekly_gross_series, deal_pct, advance_share_pct, marketing_recoupable, payback_horizon_weeks, deal_type) ==
    LET recoup_capacity == RecoupCapacity(weekly_gross_series, deal_pct,
                                          payback_horizon_weeks, deal_type)
    IN  IF deal_type = "profit_split" THEN recoup_capacity
        ELSE PaybackLoop(weekly_gross_series, deal_pct, advance_share_pct,
                         marketing_recoupable, payback_horizon_weeks,
                         0, recoup_capacity, 0, 100)

\* compute_payback_recommendation
compute_payback_recommendation(weekly_gross_series, deal_pct, advance_share_pct, marketing_recoupable, payback_horizon_weeks, deal_type) ==
    LET max_cost == compute_payback_max_cost(weekly_gross_series, deal_pct, advance_share_pct,
                                             marketing_recoupable, payback_horizon_weeks,
                                             deal_type)
        recoup_week == compute_recoup_week(weekly_gross_series, deal_pct, max_cost,
                                           advance_share_pct, marketing_recoupable)
        cf_result == compute_weekly_cashflows(weekly_gross_series, deal_pct, max_cost,
                                              advance_share_pct, marketing_recoupable)
        annual_cash_flows ==
            [ y \in 1..10 |-> SumRange(cf_result, (y - 1) * WeeksPerYear + 1,
                                       Min(y * WeeksPerYear, Len(cf_result))) ]
    IN  [ payback_horizon_weeks |-> payback_horizon_weeks,
          max_total_cost |-> max_cost,
          suggested_advance |-> PctOf(advance_share_pct, max_cost),
          suggested_marketing |-> max_cost - PctOf(advance_share_pct, max_cost),
          implied_irr |-> IF max_cost > 0
                          THEN compute_annual_irr(max_cost, annual_cash_flows)
                          ELSE None,
          recoup_week |-> recoup_week ]

(* The requests of the payback solver *)

\* year-1 gross revenue is a multiple of WeeklyStep cents a week, up to MaxWeeklySteps
MaxWeeklySteps == 1

WeeklyStep == 4 * 100

\* advance_share of the request, in percent
AdvanceShares == {0, 70, 100}

PaybackRequests ==
    [ year1_total_rev : {WeeksPerYear * WeeklyStep * k : k \in 0..MaxWeeklySteps},
      decay_multipliers : DecayProfiles,
      deal_type : DealTypes,
      deal_percent : DealPercents,
      advance_share : AdvanceShares,
      marketing_recoupable : BOOLEAN ]

\* analyze_deal: the series and the label share the solvers are given
WeeklyGrossSeries(req) ==
    generate_weekly_gross_series(req.year1_total_rev, req.decay_multipliers, NumYears)

LabelShare(req) == compute_label_share(req.deal_type, req.deal_percent)

PaybackInit ==
    /\ request \in PaybackRequests
    /\ payback_rec = <<>>
    /\ irr_recs = <<>>
    /\ viability = <<>>

\* analyze_deal, section 1: the payback-based recommendation
ComputePaybackRecommendation ==
    /\ payback_rec = <<>>
    /\ payback_rec' = compute_payback_recommendation(
                          WeeklyGrossSeries(request), LabelShare(request),
                          request.advance_share, request.marketing_recoupable,
                          PaybackHorizonWeeks, request.deal_type)
    /\ UNCHANGED <<request, irr_recs, viability, engineVars, loaderVars, projectionVars>>

PaybackNext == ComputePaybackRecommendation

InitPayback == PaybackInit /\ EngineIdle /\ LoaderIdle /\ ProjectionIdle

SpecPayback == InitPayback /\ [][PaybackNext]_vars

(* Claims about the payback solver *)

\* costs tried against the solver's answer: tenths of the gross of the horizon
MaxProbeTenths == 10

HorizonGross(req) == SumRange(WeeklyGrossSeries(req), 1, PaybackHorizonWeeks)

ProbeCosts(req) == {(HorizonGross(req) * j) \div 10 : j \in 0..MaxProbeTenths}

\* the cumulative weekly label inflow of the request reaches cost c by the horizon
PaysBackInHorizon(req, c) ==
    FeasibleCost(compute_recoup_week(WeeklyGrossSeries(req), LabelShare(req), c,
                                     req.advance_share, req.marketing_recoupable),
                 PaybackHorizonWeeks)

SearchedDeal == payback_rec # <<>> /\ request.deal_type \in {"distribution", "royalty"}

\* C7 (as claimed): for Distribution and Royalty the cost the payback solver
\* returns pays back within the horizon, and no cost more than the tolerance
\* above it has its cumulative weekly label inflow reach it by the horizon.
C7_MaxCostRecoupable ==
    SearchedDeal =>
        /\ PaysBackInHorizon(request, payback_rec.max_total_cost)
        /\ \A c \in ProbeCosts(request) :
               c > payback_rec.max_total_cost + PaybackTolerance
                   => ~PaysBackInHorizon(request, c)

\* C7 (amended): for Distribution and Royalty the cost the payback solver
\* returns pays back within the horizon, and no cost of the searched interval
\* [0, horizon gross * (1 - label share)] that is more than the tolerance above
\* it pays back within the horizon.
C7_MaxCostWithinCapacity ==
    SearchedDeal =>
        /\ PaysBackInHorizon(request, payback_rec.max_total_cost)
        /\ \A c \in ProbeCosts(request) :
               ( /\ c > payback_rec.max_total_cost + PaybackTolerance
                 /\ c <= RecoupCapacity(WeeklyGrossSeries(request), LabelShare(request),
                                        PaybackHorizonWeeks, request.deal_type) )
                   => ~PaysBackInHorizon(request, c)

\* a searched deal whose answer is positive and lies more than the tolerance
\* below a probed cost of the searched interval
C7_Witness ==
    /\ SearchedDeal
    /\ payback_rec.max_total_cost > 0
    /\ \E c \in ProbeCosts(request) :
           /\ c > payback_rec.max_total_cost + PaybackTolerance
           /\ c <= RecoupCapacity(WeeklyGrossSeries(request), LabelShare(request),
                                  PaybackHorizonWeeks, request.deal_type)

\* C8: when not even the smallest positive cost pays back within the horizon,
\* the payback recommendation has max_total_cost = 0, implied_irr = None and
\* recoup_week = None.
C8_NothingRecoups ==
    (payback_rec # <<>> /\ ~PaysBackInHorizon(request, 1)) =>
        /\ payback_rec.max_total_cost = 0
        /\ payback_rec.implied_irr = None
        /\ payback_rec.recoup_week = None

-----------------------------------------------------------------------------
(* The IRR cost solver (src/src/pricer/payback.py) and the viability       *)
(* evaluation (src/src/deal_analysis.py, src/src/projector/                *)
(* npv_calculator.py)                                                      *)
(*                                                                         *)
(* In this part money is a whole number of ten-dollar units, so that the   *)
(* $100 tolerance of the cost search is 10 units.                          *)

\* tolerance = 100.0 dollars, in ten-dollar units
IrrCostTolerance == 10

\* target_irrs of analyze_deal, in permille
TargetIrrs == <<100, 150>>

\* compute_irr_recommendation: test_irr > target_irr, with the comparison reversed
IrrAboveTarget_Reversed(test_irr, target_irr) == test_irr[1] < target_irr

\* compute_irr_recommendation: test_irr > target_irr
IrrAboveTarget(test_irr, target_irr) == test_irr[1] > target_irr

\* compute_irr_recommendation: the bisection on the cost with n iterations left;
\* its result is the final (cost_low, max_cost)
RECURSIVE IrrCostLoop(_, _, _, _, _, _, _, _)
IrrCostLoop(target_irr, deal_type, annual_gross, deal_pct, cost_low, cost_high, max_cost, n) ==
    IF n = 0 THEN [ cost_low |-> cost_low, max_cost |-> max_cost ]
    ELSE LET cost_mid == (cost_low + cost_high) \div 2
             trial_cf == TrialCashFlows(deal_type, annual_gross, deal_pct, cost_mid)
             test_irr == IF cost_mid > 0 THEN compute_annual_irr(cost_mid, trial_cf)
                         ELSE None
             raise == test_irr # None /\ IrrAboveTarget(test_irr, target_irr)
             low == IF raise THEN cost_mid ELSE cost_low
             high == IF raise THEN cost_high ELSE cost_mid
             best == IF raise THEN cost_mid ELSE max_cost
         IN  IF high - low < IrrCostTolerance
             THEN [ cost_low |-> low, max_cost |-> best ]
             ELSE IrrCostLoop(target_irr, deal_type, annual_gross, deal_pct,
                              low, high, best, n - 1)

\* compute_irr_recommendation, called with a deal type and the annual gross
compute_irr_recommendation(target_irr, weekly_gross_series, annual_cash_flows_base, deal_pct, advance_share_pct, marketing_recoupable, deal_type, annual_gross) ==
    LET search == IrrCostLoop(target_irr, deal_type, annual_gross, deal_pct,
                              0, SumSeq(annual_gross), 0, 100)
        max_cost == IF search.max_cost > 0 THEN search.max_cost ELSE search.cost_low
    IN  [ target_irr |-> target_irr,
          max_total_cost |-> max_cost,
          suggested_advance |-> PctOf(advance_share_pct, max_cost),
          suggested_marketing |-> max_cost - PctOf(advance_share_pct, max_cost),
          recoup_week |-> compute_recoup_week(weekly_gross_series, deal_pct, max_cost,
                                              advance_share_pct, marketing_recoupable),
          npv_at_10_percent |-> PresentValue(annual_cash_flows_base, 100, 1) - max_cost ]

\* NPVCalculator._irr_binary_search.npv_at_rate: cfs (cash_flows) starts with the year-0 flow
IrrSearchNpv(cfs, r) == cfs[1] + PresentValue(Tail(cfs), r, 1)

\* NPVCalculator._irr_binary_search: the loop with n iterations left
RECURSIVE IrrSearchLoop(_, _, _, _)
IrrSearchLoop(cfs, r_low, r_high, n) ==
    IF n = 0 THEN (r_low + r_high) \div 2
    ELSE LET r_mid == (r_low + r_high) \div 2
             npv == IrrSearchNpv(cfs, r_mid)
         IN  IF npv = 0 THEN r_mid
             ELSE IF r_high - r_low <= 1 THEN r_mid
             ELSE IF npv > 0 THEN IrrSearchLoop(cfs, r_mid, r_high, n - 1)
             ELSE IrrSearchLoop(cfs, r_low, r_mid, n - 1)

\* NPVCalculator.calculate_irr, by the binary search of the module (the rate
\* numpy_financial computes when it is installed is the same root)
calculate_irr(cfs) ==
    IF SumSeq(cfs) <= 0 THEN None
    ELSE Some(IrrSearchLoop(cfs, -990, 5 * RateScale, 100))

\* analyze_viability: discount_rate = 0.10, in permille
DefaultDiscountRate == 100

\* NPVCalculator.calculate_label_metrics
calculate_label_metrics(label_share_values, label_investment) ==
    LET label_cashflows == <<0 - label_investment>> \o label_share_values
    IN  [ label_investment |-> label_investment,
          label_npv |-> IrrSearchNpv(label_cashflows, DefaultDiscountRate),
          label_total_undiscounted |-> SumSeq(label_cashflows),
          label_irr |-> calculate_irr(label_cashflows) ]

\* calculate_deal_npv: cumulative_undiscounted of year y, the artist's flows of
\* the years 1..y summed
CumulativeUndiscounted(net_artist_cash_flow, y) ==
    SumSeq(SubSeq(net_artist_cash_flow, 1, y))

\* calculate_deal_npv with the break-even test cumulative_undiscounted >= 0
calculate_deal_npv_NonNegative(net_artist_cash_flow, artist_advance) ==
    LET breakeven_years == { y \in 1..Len(net_artist_cash_flow) :
                               CumulativeUndiscounted(net_artist_cash_flow, y) >= 0 }
    IN  [ artist_advance |-> artist_advance,
          total_undiscounted_cash_flow |-> SumSeq(net_artist_cash_flow),
          total_cash_incl_advance |-> artist_advance + SumSeq(net_artist_cash_flow),
          breakeven_year |-> IF breakeven_years = {} THEN None
                             ELSE Some(CHOOSE y \in breakeven_years :
                                           \A z \in breakeven_years : y <= z) ]

\* NPVCalculator.calculate_deal_npv: the undiscounted metrics of the artist
calculate_deal_npv(net_artist_cash_flow, artist_advance) ==
    LET breakeven_years == { y \in 1..Len(net_artist_cash_flow) :
                               CumulativeUndiscounted(net_artist_cash_flow, y) > 0 }
    IN  [ artist_advance |-> artist_advance,
          total_undiscounted_cash_flow |-> SumSeq(net_artist_cash_flow),
          total_cash_incl_advance |-> artist_advance + SumSeq(net_artist_cash_flow),
          breakeven_year |-> IF breakeven_years = {} THEN None
                             ELSE Some(CHOOSE y \in breakeven_years :
                                           \A z \in breakeven_years : y <= z) ]

\* DealAnalyzer.analyze_viability
analyze_viability(req, advance, marketing) ==
    LET label_share_pct == compute_label_share(req.deal_type, req.deal_percent)
        total_investment == advance + marketing
        recoup_amount == IF req.marketing_recoupable THEN total_investment ELSE advance
        eng == CashFlowEngine(req.year1_total_rev, req.decay_multipliers, label_share_pct,
                              req.marketing_recoupable, total_investment, req.deal_type)
        cash_flows_ == compute_cash_flows_with_recoup(eng, recoup_amount)
        label_share_vals == [ y \in 1..NumYears |-> cash_flows_[y].label_cash_in ]
        artist_pay == [ y \in 1..NumYears |-> cash_flows_[y].artist_pay ]
    IN  [ total_investment |-> total_investment,
          advance |-> advance,
          marketing |-> marketing,
          label_share |-> label_share_vals,
          artist_pay |-> artist_pay,
          label_metrics |-> calculate_label_metrics(label_share_vals, total_investment),
          artist_metrics |-> calculate_deal_npv(artist_pay, advance) ]

(* The requests of the IRR solver *)

\* year-1 gross revenue is IrrWeeklyBase + IrrWeeklyStep * k units a week, k up
\* to MaxIrrSteps
MaxIrrSteps == 1

IrrWeeklyBase == 2 * 100

IrrWeeklyStep == 5 * 10

IrrRequests ==
    [ year1_total_rev : {WeeksPerYear * (IrrWeeklyBase + IrrWeeklyStep * k) : k \in 0..MaxIrrSteps},
      decay_multipliers : DecayProfiles,
      deal_type : DealTypes,
      deal_percent : DealPercents,
      advance_share : AdvanceShares,
      marketing_recoupable : BOOLEAN ]

\* analyze_deal: the engine of the request
RequestEngine(req) ==
    CashFlowEngine(req.year1_total_rev, req.decay_multipliers, LabelShare(req),
                   req.marketing_recoupable, 0, req.deal_type)

\* analyze_deal: label_inflows_base
LabelInflowsBase(req) ==
    LET base == compute_cash_flows_no_recoup(RequestEngine(req))
    IN  [ y \in 1..NumYears |-> base[y].label_cash_in ]

IrrInit ==
    /\ request \in IrrRequests
    /\ payback_rec = <<>>
    /\ irr_recs = <<>>
    /\ viability = <<>>

\* analyze_deal, section 2: the IRR-based recommendations for the two targets
ComputeIrrRecommendations ==
    /\ irr_recs = <<>>
    /\ irr_recs' = [ i \in 1..Len(TargetIrrs) |->
                       compute_irr_recommendation(
                           TargetIrrs[i], WeeklyGrossSeries(request),
                           LabelInflowsBase(request), LabelShare(request),
                           request.advance_share, request.marketing_recoupable,
                           request.deal_type, AnnualGross(RequestEngine(request))) ]
    /\ UNCHANGED <<request, payback_rec, viability, engineVars, loaderVars, projectionVars>>

\* analyze_viability of the same request, with the advance and the marketing a
\* recommendation suggests
EvaluateViability ==
    /\ irr_recs # <<>>
    /\ viability = <<>>
    /\ \E i \in 1..Len(TargetIrrs) :
           viability' = [ target_irr |-> irr_recs[i].target_irr,
                          result |-> analyze_viability(request,
                                                       irr_recs[i].suggested_advance,
                                                       irr_recs[i].suggested_marketing) ]
    /\ UNCHANGED <<request, payback_rec, irr_recs, engineVars, loaderVars, projectionVars>>

\* the advance and the marketing a caller of analyze_viability supplies, in
\* ten-dollar units
ViabilityTerms ==
    { <<2000, 0>>, <<2000, 2000>>, <<0, 3000>>, <<10000, 5000>> }

\* an advance of 0.6 of the ten-year gross of the request
HeavyAdvance(req) == (6 * TotalRevenue(RequestEngine(req))) \div 10

\* analyze_viability of the request with terms of the caller's own; the
\* target_irr recorded with the result is 0, there being no target
EvaluateTerms ==
    /\ irr_recs = <<>>
    /\ viability = <<>>
    /\ \E terms \in ViabilityTerms :
           viability' = [ target_irr |-> 0,
                          result |-> analyze_viability(request, terms[1], terms[2]) ]
    /\ UNCHANGED <<request, payback_rec, irr_recs, engineVars, loaderVars, projectionVars>>

IrrNext == ComputeIrrRecommendations \/ EvaluateViability \/ EvaluateTerms

InitIrr == IrrInit /\ EngineIdle /\ LoaderIdle /\ ProjectionIdle

SpecIRR == InitIrr /\ [][IrrNext]_vars

(* A profit split under a heavy expense, compared with the equivalent     *)
(* distribution deal                                                       *)

HeavyInit ==
    /\ request \in { req \in IrrRequests : req.deal_type = "profit_split" }
    /\ payback_rec = <<>>
    /\ irr_recs = <<>>
    /\ viability = <<>>

\* analyze_viability of the request with an advance of 0.6 of its ten-year
\* gross and no marketing
EvaluateHeavyExpense ==
    /\ viability = <<>>
    /\ viability' = [ target_irr |-> 0,
                      result |-> analyze_viability(request, HeavyAdvance(request), 0) ]
    /\ UNCHANGED <<request, payback_rec, irr_recs, engineVars, loaderVars, projectionVars>>

\* analyze_viability of the equivalent distribution deal: the request of a
\* profit split evaluated again as a distribution deal, at the same percent,
\* advance and marketing
EvaluateEquivalentDistribution ==
    /\ viability # <<>>
    /\ viability.target_irr = 0
    /\ "equivalent" \notin DOMAIN viability
    /\ request.deal_type = "profit_split"
    /\ viability' = [ target_irr |-> viability.target_irr,
                      result |-> viability.result,
                      equivalent |-> analyze_viability(
                                         [ request EXCEPT !.deal_type = "distribution" ],
                                         viability.result.advance,
                                         viability.result.marketing) ]
    /\ UNCHANGED <<request, payback_rec, irr_recs, engineVars, loaderVars, projectionVars>>

HeavyNext == EvaluateHeavyExpense \/ EvaluateEquivalentDistribution

InitHeavy == HeavyInit /\ EngineIdle /\ LoaderIdle /\ ProjectionIdle

SpecHeavyExpense == InitHeavy /\ [][HeavyNext]_vars

(* Claims about the IRR solver and the round trip *)

\* C9: for the same request the maximum cost the IRR solver returns for the
\* 15% target is at most the one it returns for the 10% target, whatever the
\* deal type.
C9_MaxCostMonotoneInTarget ==
    irr_recs # <<>> => irr_recs[2].max_total_cost <= irr_recs[1].max_total_cost

\* a Distribution request, whose trial series changes with the trial cost, for
\* which the two targets give different positive costs
C9_Witness ==
    /\ irr_recs # <<>>
    /\ request.deal_type = "distribution"
    /\ 0 < irr_recs[2].max_total_cost
    /\ irr_recs[2].max_total_cost < irr_recs[1].max_total_cost

\* the series the IRR solver builds for the request at the cost it returned
\* for the 15% target
SolverSeriesAtMaxCost ==
    TrialCashFlows(request.deal_type, AnnualGross(RequestEngine(request)),
                   LabelShare(request), irr_recs[2].max_total_cost)

\* C10: when viability is evaluated with the advance and marketing of the 15%
\* recommendation (a positive cost), the label IRR is within 0.005 of 0.15 and
\* the label series evaluated is the series the solver used at that cost, for
\* every deal type and both values of marketing_recoupable.
C10_RoundTrip ==
    ( /\ viability # <<>>
      /\ viability.target_irr = 150
      /\ irr_recs[2].max_total_cost > 0 ) =>
        /\ viability.result.label_metrics.label_irr # None
        /\ viability.result.label_metrics.label_irr[1] >= 150 - 5
        /\ viability.result.label_metrics.label_irr[1] <= 150 + 5
        /\ viability.result.label_share = SolverSeriesAtMaxCost

\* the label IRR analyze_viability reports for the request of the state with
\* the deal type replaced, at the advance and marketing evaluated
LabelIrrOfDealType(deal_type) ==
    analyze_viability([request EXCEPT !.deal_type = deal_type],
                      viability.result.advance,
                      viability.result.marketing).label_metrics.label_irr

\* C11: with the same yearly gross, deal_percent, advance and marketing, the
\* label IRRs of the three deal types (where all three exist) are ordered
\* Royalty >= Distribution >= Profit Split.
C11_IrrRanking ==
    ( /\ viability # <<>>
      /\ viability.target_irr = 0
      /\ \A dt \in DealTypes : LabelIrrOfDealType(dt) # None ) =>
        /\ LabelIrrOfDealType("royalty")[1] >= LabelIrrOfDealType("distribution")[1]
        /\ LabelIrrOfDealType("distribution")[1] >= LabelIrrOfDealType("profit_split")[1]

-----------------------------------------------------------------------------
(* Python floats (IEEE 754 binary64), for the anchoring of                 *)
(* src/src/pricer/decay_curve.py.                                          *)
(*                                                                         *)
(* A float is 0 or m * 2^e with a significand m of Precision bits; m is    *)
(* held in limbs of LimbBits bits, least significant first.  Division and  *)
(* multiplication round to nearest, ties to even, as the hardware does.    *)
(* Only non-negative values within the normal range occur here.            *)

Precision == 53

LimbBits == 14

LimbBase == 2^LimbBits

NumLimbs == 8

Limbs == 1..NumLimbs

\* the limbs of a significand once it is shifted to fill them: Precision + 3
\* bits
SigLimbs == 4

\* Body(x), with x evaluated before Body is: an assignment followed by the
\* rest of the function
Bind(x, Body(_)) == CHOOSE r \in { Body(v) : v \in {x} } : TRUE

\* the limbs f[1], ..., f[NumLimbs] as a sequence
BigOf(f) == SubSeq(f, 1, NumLimbs)

BigZero == BigOf([ j \in Limbs |-> 0 ])

Limb(a, j) == IF j \in Limbs THEN a[j] ELSE 0

\* the columns s[j] >= 0 with the upper part of each moved into the next
CarryOnce(s) == BigOf([ j \in Limbs |-> (s[j] % LimbBase) + (Limb(s, j - 1) \div LimbBase) ])

\* the carry into column j of columns below 2 * LimbBase - 1: some column
\* under j overflows and every column between passes the carry on
CarryInto(s, j) ==
    \E i \in 1..(j - 1) : s[i] >= LimbBase /\ \A k \in (i + 1)..(j - 1) : s[k] >= LimbBase - 1

\* the columns s[j] >= 0 brought into 0..LimbBase-1
BigNormalize(s) ==
    Bind(CarryOnce(CarryOnce(s)), LAMBDA t :
        BigOf([ j \in Limbs |-> (t[j] + (IF CarryInto(t, j) THEN 1 ELSE 0)) % LimbBase ]))

\* the borrow from column j of differences of limbs: some column under j is
\* negative and every column between passes the borrow on
BorrowFrom(s, j) ==
    \E i \in 1..(j - 1) : s[i] < 0 /\ \A k \in (i + 1)..(j - 1) : s[k] <= 0

BigFromInt(n) == BigNormalize(BigOf([ j \in Limbs |-> IF j = 1 THEN n ELSE 0 ]))

BigAdd(a, b) == BigNormalize(BigOf([ j \in Limbs |-> a[j] + b[j] ]))

\* a - b for a >= b
BigSub(a, b) ==
    Bind(BigOf([ j \in Limbs |-> a[j] - b[j] ]), LAMBDA t :
        BigOf([ j \in Limbs |-> (t[j] - (IF BorrowFrom(t, j) THEN 1 ELSE 0)) % LimbBase ]))

BigGeq(a, b) ==
    LET differ == { j \in Limbs : a[j] # b[j] }
    IN  \/ differ = {}
        \/ LET top == CHOOSE j \in differ : \A i \in differ : i <= j
           IN  a[top] > b[top]

\* a * 2^s
BigShl(a, s) ==
    LET q == s \div LimbBits
        r == s % LimbBits
    IN  BigOf([ j \in Limbs |-> ((Limb(a, j - q) * 2^r) % LimbBase)
                                + (Limb(a, j - q - 1) \div 2^(LimbBits - r)) ])

\* a \div 2^s
BigShr(a, s) ==
    LET q == s \div LimbBits
        r == s % LimbBits
    IN  BigOf([ j \in Limbs |-> (Limb(a, j + q) \div 2^r)
                                + ((Limb(a, j + q + 1) % 2^r) * 2^(LimbBits - r)) ])

\* the number of bits of a: 0 for zero
BitLength(a) ==
    IF a = BigZero THEN 0
    ELSE LET top == CHOOSE j \in Limbs : a[j] # 0 /\ \A i \in Limbs : i > j => a[i] = 0
         IN  LimbBits * (top - 1)
             + (CHOOSE k \in 1..LimbBits : 2^(k - 1) <= a[top] /\ a[top] < 2^k)

\* a * b for two significands
BigMul(a, b) ==
    BigNormalize(BigOf([ k \in Limbs |->
        SumSeq([ i \in 1..Min(k, SigLimbs) |-> a[i] * b[k + 1 - i] ]) ]))

FZero == [ m |-> BigZero, e |-> 0 ]

\* the float nearest to a * 2^e (more than that when sticky: bits below a are
\* not all zero), ties to even
RoundToFloat(a, e, sticky) ==
    Bind(BitLength(a), LAMBDA n :
        IF n = 0 THEN FZero
        ELSE IF n <= Precision
        THEN [ m |-> BigShl(a, Precision - n), e |-> e - (Precision - n) ]
        ELSE LET s    == n - Precision
                 q    == BigShr(a, s)
                 half == BigShr(a, s - 1)[1] % 2 = 1
                 rest == sticky \/ BigShl(BigShr(a, s - 1), s - 1) # a
                 odd  == q[1] % 2 = 1
                 r    == IF half /\ (rest \/ odd) THEN BigAdd(q, BigFromInt(1)) ELSE q
             IN  IF BitLength(r) > Precision
                 THEN [ m |-> BigShr(r, 1), e |-> e + s + 1 ]
                 ELSE [ m |-> r, e |-> e + s ])

\* float(n) for an integer n >= 0
FromInt(n) == RoundToFloat(BigFromInt(n), 0, FALSE)

\* x * y
FMul(x, y) ==
    IF x = FZero \/ y = FZero THEN FZero
    ELSE RoundToFloat(BigMul(x.m, y.m), x.e + y.e, FALSE)

\* a * k for a limb k
BigMulLimb(a, k) == BigNormalize(BigOf([ j \in Limbs |-> a[j] * k ]))

\* one digit of the long division of r by d, for r < d * LimbBase and a
\* divisor that fills its SigLimbs limbs: the digit estimated from the leading
\* limbs is at most 2 too large
DivDigit(r, d) ==
    LET est == Min(LimbBase - 1,
                   (r[SigLimbs + 1] * LimbBase + r[SigLimbs]) \div d[SigLimbs])
    IN  Bind(BigMulLimb(d, est), LAMBDA p0 :
        IF BigGeq(r, p0) THEN [ q |-> est, r |-> BigSub(r, p0) ]
        ELSE Bind(BigSub(p0, d), LAMBDA p1 :
             IF BigGeq(r, p1) THEN [ q |-> est - 1, r |-> BigSub(r, p1) ]
             ELSE [ q |-> est - 2, r |-> BigSub(r, BigSub(p1, d)) ]))

\* t digits of the quotient of r by d, most significant first, and the
\* remainder
RECURSIVE DivDigits(_, _, _)
DivDigits(r, d, t) ==
    IF t = 0 THEN [ q |-> BigZero, r |-> r ]
    ELSE Bind(DivDigits(r, d, t - 1), LAMBDA prev :
         Bind(DivDigit(IF t = 1 THEN prev.r ELSE BigShl(prev.r, LimbBits), d), LAMBDA step :
         [ q |-> BigAdd(BigShl(prev.q, LimbBits), BigFromInt(step.q)), r |-> step.r ]))

\* x / y for y # 0
FDiv(x, y) ==
    IF x = FZero THEN FZero
    ELSE LET fill == SigLimbs * LimbBits - Precision
         IN  Bind(DivDigits(BigShl(x.m, fill), BigShl(y.m, fill), SigLimbs + 1), LAMBDA qr :
             RoundToFloat(qr.q, x.e - y.e - SigLimbs * LimbBits, qr.r # BigZero))

\* x < y
FLess(x, y) ==
    IF y = FZero THEN FALSE
    ELSE IF x = FZero THEN TRUE
    ELSE x.e < y.e \/ (x.e = y.e /\ ~BigGeq(x.m, y.m))

\* abs(x - y); when one operand is below the last bit of the other the
\* result is the larger operand
FAbsDiff(x, y) ==
    IF x = FZero THEN y
    ELSE IF y = FZero THEN x
    ELSE IF x.e - y.e > Precision + 2 THEN x
    ELSE IF y.e - x.e > Precision + 2 THEN y
    ELSE LET e  == Min(x.e, y.e)
             xm == BigShl(x.m, x.e - e)
             ym == BigShl(y.m, y.e - e)
         IN  RoundToFloat(IF BigGeq(xm, ym) THEN BigSub(xm, ym) ELSE BigSub(ym, xm),
                          e, FALSE)

(* src/src/pricer/decay_curve.py: the anchoring of build_shifted_curve, for *)
(* anchor weeks within year 1                                              *)

\* weeks_post_peak is at most MaxWeeksPostPeak
MaxWeeksPostPeak == 3

\* the week-over-week rates of year 1 of three calibrations, in percent
WowPercents ==
    { [ t \in 1..WeeksPerYear |-> Min(99, 88 + 2 * t) ],
      [ t \in 1..WeeksPerYear |-> Min(99, 95 + (t \div 2)) ],
      [ t \in 1..WeeksPerYear |-> 50 ] }

\* wow_rates as the floats the calibration table holds
WowRates(percents) ==
    SubSeq([ t \in 1..WeeksPerYear |-> FDiv(FromInt(percents[t]), FromInt(100)) ],
           1, WeeksPerYear)

\* A loop whose state st counts its iterations in st.n: the state when st.n
\* has reached last, Step being one iteration.  The iterations are run half by
\* half, which keeps the evaluation shallow.
RECURSIVE LoopUntil(_, _, _)
LoopUntil(Step(_), st, last) ==
    IF st.n >= last THEN st
    ELSE IF st.n + 1 = last THEN Step(st)
    ELSE Bind(LoopUntil(Step, st, st.n + (last - st.n) \div 2), LAMBDA half :
              LoopUntil(Step, half, last))

\* build_unshifted_level_curve: one iteration of the loop over the weeks
\* t = 2..52 of year 1; st.n is the week reached (the rate of week t is
\* wow_rates[t - 1], counted from 0)
Year1Week(wow_rates, st) ==
    [ n |-> st.n + 1,
      level_curve |-> Append(st.level_curve,
                             FMul(st.level_curve[st.n], wow_rates[st.n + 1])) ]

\* build_unshifted_level_curve: level_curve after the weeks 1..t of year 1
Year1Levels(wow_rates, t) ==
    LoopUntil(LAMBDA st : Year1Week(wow_rates, st),
              [ n |-> 1, level_curve |-> << FromInt(1) >> ], t).level_curve

\* build_shifted_curve for weeks_post_peak < 52 and streams >= 0: the anchor
\* and the scale factors; level_curve is kept up to the anchor week
build_shifted_curve(wow_rates, weeks_post_peak, current_weekly_audio_streams, current_weekly_video_streams) ==
    LET k            == weeks_post_peak
        anchor_week  == 1 + k
        level_curve  == Year1Levels(wow_rates, anchor_week)
        anchor_level == level_curve[anchor_week]
    IN  [ level_curve        |-> level_curve,
          weeks_post_peak    |-> weeks_post_peak,
          anchor_week        |-> anchor_week,
          anchor_level       |-> anchor_level,
          scale_factor_audio |-> IF current_weekly_audio_streams > 0
                                 THEN FDiv(FromInt(current_weekly_audio_streams), anchor_level)
                                 ELSE FZero,
          scale_factor_video |-> IF current_weekly_video_streams > 0
                                 THEN FDiv(FromInt(current_weekly_video_streams), anchor_level)
                                 ELSE FZero ]

\* tolerance of validate_anchor_point: 1e-9
AnchorTolerance == FDiv(FromInt(1), FromInt(10^9))

\* validate_anchor_point
validate_anchor_point(result, current_weekly_audio_streams, tolerance) ==
    LET projected_audio_at_anchor ==
            FMul(result.scale_factor_audio, result.level_curve[result.anchor_week])
        error == FAbsDiff(projected_audio_at_anchor, FromInt(current_weekly_audio_streams))
    IN  [ valid               |-> FLess(error, tolerance),
          anchor_week         |-> result.anchor_week,
          projected_at_anchor |-> projected_audio_at_anchor,
          expected            |-> current_weekly_audio_streams,
          error               |-> error ]

\* the weekly stream counts of the requests
AudioStreams == { 0, 1, 500000, 10^7, 242739974, 10^9 }

VideoStreams == { 0, 100000, 123456789 }

AnchorInit ==
    /\ curve_args \in [ wow_percents : WowPercents,
                        weeks_post_peak : 0..MaxWeeksPostPeak,
                        current_weekly_audio_streams : AudioStreams,
                        current_weekly_video_streams : VideoStreams ]
    /\ curve_result = <<>>

\* build_shifted_curve is called with the arguments
BuildShiftedCurve ==
    /\ curve_result = <<>>
    /\ curve_result' =
           [ result |-> build_shifted_curve(WowRates(curve_args.wow_percents),
                                            curve_args.weeks_post_peak,
                                            curve_args.current_weekly_audio_streams,
                                            curve_args.current_weekly_video_streams),
             validation |-> None ]
    /\ UNCHANGED <<curve_args, weekly_result, analysis, engineVars, loaderVars, solverVars>>

\* validate_anchor_point is called with the result
ValidateAnchorPoint ==
    /\ curve_result # <<>>
    /\ curve_result.validation = None
    /\ curve_result' =
           [ curve_result EXCEPT !.validation =
               Some(validate_anchor_point(curve_result.result,
                                          curve_args.current_weekly_audio_streams,
                                          AnchorTolerance)) ]
    /\ UNCHANGED <<curve_args, weekly_result, analysis, engineVars, loaderVars, solverVars>>

AnchorNext == BuildShiftedCurve \/ ValidateAnchorPoint

InitAnchor == AnchorInit /\ AnalysisIdle /\ EngineIdle /\ LoaderIdle /\ SolverIdle

SpecAnchor == InitAnchor /\ [][AnchorNext]_vars

\* the distance between scale * L[anchor_week] and the current stream count
AnchorError(result, scale, current) ==
    FAbsDiff(FMul(scale, result.level_curve[result.anchor_week]), FromInt(current))

\* C12: for every weeks_post_peak and every current weekly audio and video
\* stream count >= 0, the scale factors of the shifted curve give back the
\* current counts at the anchor week: scale_audio * L[1 + k] = current_audio
\* and scale_video * L[1 + k] = current_video, within 1e-9.
C12_AnchorExact ==
    curve_result # <<>> =>
        /\ FLess(AnchorError(curve_result.result, curve_result.result.scale_factor_audio,
                             curve_args.current_weekly_audio_streams), AnchorTolerance)
        /\ FLess(AnchorError(curve_result.result, curve_result.result.scale_factor_video,
                             curve_args.current_weekly_video_streams), AnchorTolerance)

-----------------------------------------------------------------------------
(* src/src/pricer/decay_curve.py: the unshifted level curve                *)
(* (build_unshifted_level_curve, solve_decay_factor_for_target), one       *)
(* action per step of the construction                                     *)

\* x + y
FAdd(x, y) ==
    IF x = FZero THEN y
    ELSE IF y = FZero THEN x
    ELSE IF x.e - y.e > Precision + 2 THEN x
    ELSE IF y.e - x.e > Precision + 2 THEN y
    ELSE LET e == Min(x.e, y.e)
         IN  RoundToFloat(BigAdd(BigShl(x.m, x.e - e), BigShl(y.m, y.e - e)), e, FALSE)

FOne == FromInt(1)

\* x ** n for an integer n >= 1, by squaring; the library's pow differs from
\* it by a few units in the last place at most
RECURSIVE FPow(_, _)
FPow(x, n) ==
    IF n = 1 THEN x
    ELSE Bind(FPow(x, n \div 2), LAMBDA h :
         Bind(FMul(h, h), LAMBDA sq :
         IF n % 2 = 0 THEN sq ELSE FMul(sq, x)))

\* tolerance of solve_decay_factor_for_target and of its test for d = 1: 1e-12
SolveTolerance == FDiv(FOne, FMul(FromInt(10^6), FromInt(10^6)))

\* solve_decay_factor_for_target.compute_year_sum; 1 - d ** num_weeks and
\* 1 - d have the same sign, so the quotient is that of their magnitudes
compute_year_sum(start_level, d, num_weeks) ==
    IF FLess(FAbsDiff(d, FOne), SolveTolerance)
    THEN FMul(start_level, FromInt(num_weeks))
    ELSE Bind(FMul(start_level, d), LAMBDA sd :
         Bind(FPow(d, num_weeks), LAMBDA dn :
         Bind(FMul(sd, FAbsDiff(FOne, dn)), LAMBDA numerator :
         Bind(FAbsDiff(FOne, d), LAMBDA denominator :
         FDiv(numerator, denominator)))))

\* max_iterations of solve_decay_factor_for_target
MaxSolveIterations == 300

\* the bounds of the binary search: d_low, d_high = 0.0001, 10.0
SolveLow == FDiv(FOne, FromInt(10000))

SolveHigh == FromInt(10)

\* solve_decay_factor_for_target on entry: the search interval, no iteration
\* made and no factor returned
SolveStart(start_level, target_sum) ==
    [ start_level |-> start_level, target_sum |-> target_sum,
      d_low |-> SolveLow, d_high |-> SolveHigh, n |-> 0, d |-> None ]

\* d_mid of an iteration of the binary search
SolveMid(st) == FDiv(FAdd(st.d_low, st.d_high), FromInt(2))

\* one iteration of the binary search of solve_decay_factor_for_target; st.d
\* is the factor returned, once one is.  When d_mid is one of the two bounds
\* the iterations left change neither bound, and they are passed over.
SolveStep(st) ==
    Bind(SolveMid(st), LAMBDA d_mid :
    Bind(compute_year_sum(st.start_level, d_mid, WeeksPerYear), LAMBDA current_sum :
    Bind(FAbsDiff(current_sum, st.target_sum), LAMBDA error :
        IF FLess(error, SolveTolerance)
        THEN [ st EXCEPT !.n = st.n + 1, !.d = Some(d_mid) ]
        ELSE IF d_mid = st.d_low \/ d_mid = st.d_high
        THEN [ st EXCEPT !.n = MaxSolveIterations ]
        ELSE IF FLess(current_sum, st.target_sum)
        THEN [ st EXCEPT !.n = st.n + 1, !.d_low = d_mid ]
        ELSE [ st EXCEPT !.n = st.n + 1, !.d_high = d_mid ])))

\* sum(levels) for a list of floats: the elements are added from the left
FSum(levels) ==
    LoopUntil(LAMBDA st : [ n |-> st.n + 1, total |-> FAdd(st.total, levels[st.n + 1]) ],
              [ n |-> 0, total |-> FZero ], Len(levels)).total

\* excel_multipliers of a calibration: the annual multipliers M[1..10], in
\* millionths
ExcelMultipliers ==
    { << 1000000, 600000, 500000, 400000, 300000, 300000, 200000, 200000, 200000, 100000 >>,
      << 500000, 400000, 300000, 250000, 200000, 150000, 100000, 100000, 50000, 50000 >>,
      << 1000000, 100000, 900000, 100000, 900000, 100000, 900000, 100000, 900000, 100000 >>,
      << 1000000, 300, 300, 300, 300, 300, 300, 300, 300, 300 >>,
      << 1000000, 1, 1, 1, 1, 1, 1, 1, 1, 1 >>,
      << 2000000000, 1, 1, 1, 1, 1, 1, 1, 1, 1 >> }

\* the multiplier of a year as the float the calibration table holds
Multiplier(millionths) == FDiv(FromInt(millionths), FromInt(10^6))

\* normalized_multipliers[year] without the division by M_1
NormalizedMultiplier_Unnormalized(excel_multipliers, year) ==
    Multiplier(excel_multipliers[year])

\* build_unshifted_level_curve: normalized_multipliers[year]
NormalizedMultiplier(excel_multipliers, year) ==
    Bind(Multiplier(excel_multipliers[year]), LAMBDA m :
    Bind(Multiplier(excel_multipliers[1]), LAMBDA m1 :
    FDiv(m, m1)))

\* build_unshifted_level_curve: the target sum of a year, s1 * M_y
TargetSum(s1, excel_multipliers, year) ==
    Bind(NormalizedMultiplier(excel_multipliers, year), LAMBDA target_multiplier :
    FMul(s1, target_multiplier))

\* whether the weekly factor that gives a year its target sum lies inside the
\* search interval: the target lies between the sums at its two bounds
FactorInsideInterval(start_level, target_sum) ==
    Bind(compute_year_sum(start_level, SolveLow, WeeksPerYear), LAMBDA lowest :
    Bind(compute_year_sum(start_level, SolveHigh, WeeksPerYear), LAMBDA highest :
    FLess(lowest, target_sum) /\ FLess(target_sum, highest)))

\* the least target for which the absolute tolerance of the search, 1e-12,
\* is within the relative tolerance 0.0001 of the validation: 1e-8
LeastTarget == FDiv(FOne, FromInt(10^8))

\* build_unshifted_level_curve up to the end of year 1: the levels from the
\* weekly rates, and s1
CurveYear1(wow_rates) ==
    Bind(Year1Levels(wow_rates, WeeksPerYear), LAMBDA level_curve :
    Bind(FSum(level_curve), LAMBDA s1 :
    [ pc                    |-> "year",
      level_curve           |-> level_curve,
      yearly_decay_factors  |-> << None >>,
      unshifted_annual_sums |-> << s1 >>,
      s1                    |-> s1,
      solve                 |-> <<>>,
      inside                |-> << TRUE >>,
      validation            |-> <<>> ]))

\* build_unshifted_level_curve: the 52 levels of a year from its factor
YearLevels(year_start_level, d_y) ==
    SubSeq([ j \in 1..WeeksPerYear |-> FMul(year_start_level, FPow(d_y, j)) ],
           1, WeeksPerYear)

\* build_unshifted_level_curve: the end of an iteration of the loop over the
\* years, once the factor d_y of the year is solved
CurveYear(curve, d_y) ==
    Bind(YearLevels(curve.solve.start_level, d_y), LAMBDA year_levels :
    Bind(FSum(year_levels), LAMBDA year_sum :
    [ curve EXCEPT !.pc = "year",
                   !.level_curve = curve.level_curve \o year_levels,
                   !.yearly_decay_factors = Append(curve.yearly_decay_factors, Some(d_y)),
                   !.unshifted_annual_sums = Append(curve.unshifted_annual_sums, year_sum),
                   !.solve = <<>> ]))

\* tolerance of validate_unshifted_curve: 0.0001
CurveTolerance == FDiv(FOne, FromInt(10000))

\* validate_unshifted_curve: target of a year, s1 * normalized[year]
ValidationTarget(s1, excel_multipliers, year) ==
    Bind(Multiplier(excel_multipliers[year]), LAMBDA m :
    Bind(Multiplier(excel_multipliers[1]), LAMBDA m1 :
    Bind(FDiv(m, m1), LAMBDA normalized :
    FMul(s1, normalized))))

\* validate_unshifted_curve: whether a year is among the errors (the targets
\* are positive)
YearInError(unshifted_annual_sums, excel_multipliers, s1, year) ==
    Bind(ValidationTarget(s1, excel_multipliers, year), LAMBDA target :
    Bind(FAbsDiff(unshifted_annual_sums[year], target), LAMBDA diff :
    Bind(FDiv(diff, target), LAMBDA rel_error :
    FLess(CurveTolerance, rel_error))))

\* validate_unshifted_curve: the years in errors, and valid
validate_unshifted_curve(unshifted_annual_sums, excel_multipliers, s1) ==
    Bind({ year \in 1..NumYears :
             YearInError(unshifted_annual_sums, excel_multipliers, s1, year) },
         LAMBDA errors : [ valid |-> errors = {}, errors |-> errors ])

\* the calibrations: the weekly rates of year 1 and the annual multipliers;
\* the multipliers relative to a large M_1 go with the rates of 50 percent
Calibrations ==
    { c \in [ wow_percents : WowPercents, excel_multipliers : ExcelMultipliers ] :
        (c.wow_percents[1] = 50) = (c.excel_multipliers[1] > 10^6) }

CurveInit ==
    /\ curve_args \in Calibrations
    /\ curve_result = <<>>

\* build_unshifted_level_curve is called: on its own, or by an analysis that
\* has reached build_shifted_curve or compute_track_level_revenues
CurveCalled ==
    IF analysis = <<>> THEN TRUE
    ELSE analysis.pc \in { "build_shifted_curve", "compute_track_level_revenues" }

\* build_unshifted_level_curve: year 1
BuildYear1 ==
    /\ CurveCalled
    /\ curve_result = <<>>
    /\ \E wow_rates \in { WowRates(curve_args.wow_percents) } :
           curve_result' = CurveYear1(wow_rates)
    /\ UNCHANGED <<curve_args, weekly_result, analysis, engineVars, loaderVars, solverVars>>

\* build_unshifted_level_curve: the start of an iteration of the loop over the
\* years 2..10, up to the call of solve_decay_factor_for_target; inside
\* records whether the factor of the year lies inside the search interval and
\* its target is at least LeastTarget
StartYear ==
    /\ curve_result # <<>>
    /\ curve_result.pc = "year"
    /\ Len(curve_result.unshifted_annual_sums) < NumYears
    /\ \E sy_target \in { TargetSum(curve_result.s1, curve_args.excel_multipliers,
                                    Len(curve_result.unshifted_annual_sums) + 1) } :
       \E year_start_level \in { curve_result.level_curve[Len(curve_result.level_curve)] } :
       \E is_inside \in { FactorInsideInterval(year_start_level, sy_target)
                          /\ ~FLess(sy_target, LeastTarget) } :
           curve_result' =
               [ curve_result EXCEPT !.pc = "solve",
                                     !.solve = SolveStart(year_start_level, sy_target),
                                     !.inside = Append(curve_result.inside, is_inside) ]
    /\ UNCHANGED <<curve_args, weekly_result, analysis, engineVars, loaderVars, solverVars>>

\* solve_decay_factor_for_target: one iteration of the binary search
SolveIteration ==
    /\ curve_result # <<>>
    /\ curve_result.pc = "solve"
    /\ curve_result.solve.d = None
    /\ curve_result.solve.n < MaxSolveIterations
    /\ \E st \in { SolveStep(curve_result.solve) } :
           curve_result' = [ curve_result EXCEPT !.solve = st ]
    /\ UNCHANGED <<curve_args, weekly_result, analysis, engineVars, loaderVars, solverVars>>

\* solve_decay_factor_for_target returns d_mid of the iteration that came
\* within the tolerance, and build_unshifted_level_curve generates the year
SolveConverged ==
    /\ curve_result # <<>>
    /\ curve_result.pc = "solve"
    /\ curve_result.solve.d # None
    /\ curve_result' = CurveYear(curve_result, curve_result.solve.d[1])
    /\ UNCHANGED <<curve_args, weekly_result, analysis, engineVars, loaderVars, solverVars>>

\* solve_decay_factor_for_target returns the middle of the interval after the
\* last iteration, and build_unshifted_level_curve generates the year
SolveExhausted ==
    /\ curve_result # <<>>
    /\ curve_result.pc = "solve"
    /\ curve_result.solve.d = None
    /\ curve_result.solve.n >= MaxSolveIterations
    /\ \E d_y \in { SolveMid(curve_result.solve) } :
           curve_result' = CurveYear(curve_result, d_y)
    /\ UNCHANGED <<curve_args, weekly_result, analysis, engineVars, loaderVars, solverVars>>

\* validate_unshifted_curve on the curve built
ValidateUnshiftedCurve ==
    /\ curve_result # <<>>
    /\ curve_result.pc = "year"
    /\ Len(curve_result.unshifted_annual_sums) = NumYears
    /\ curve_result' =
           [ curve_result EXCEPT !.pc = "validated",
                                 !.validation =
                                     validate_unshifted_curve(
                                         curve_result.unshifted_annual_sums,
                                         curve_args.excel_multipliers, curve_result.s1) ]
    /\ UNCHANGED <<curve_args, weekly_result, analysis, engineVars, loaderVars, solverVars>>

CurveNext ==
    \/ BuildYear1
    \/ StartYear
    \/ SolveIteration
    \/ SolveConverged
    \/ SolveExhausted
    \/ ValidateUnshiftedCurve

InitCurve == CurveInit /\ AnalysisIdle /\ EngineIdle /\ LoaderIdle /\ SolverIdle

SpecCurve == InitCurve /\ [][CurveNext]_vars

\* the curve is built and validated
CurveValidated == curve_result # <<>> /\ curve_result.pc = "validated"

-----------------------------------------------------------------------------
(* src/src/deal_analysis.py (DealAnalyzer.analyze,                         *)
(* compute_track_level_revenues) and src/src/pricer/model.py               *)
(* (analyze_deal) up to the yearly gross revenues, in floats.  A float     *)
(* that may be negative is a record of its sign and its magnitude.         *)

\* float(n) for an integer n
SFromInt(n) == [ neg |-> n < 0, abs |-> FromInt(IF n < 0 THEN -n ELSE n) ]

\* the float x >= 0 as a signed float
SOf(x) == [ neg |-> FALSE, abs |-> x ]

\* a * b
SMul(a, b) ==
    Bind(FMul(a.abs, b.abs), LAMBDA p : [ neg |-> p # FZero /\ a.neg # b.neg, abs |-> p ])

\* a / b for b # 0
SDiv(a, b) ==
    Bind(FDiv(a.abs, b.abs), LAMBDA q : [ neg |-> q # FZero /\ a.neg # b.neg, abs |-> q ])

\* a + b
SAdd(a, b) ==
    IF a.neg = b.neg
    THEN Bind(FAdd(a.abs, b.abs), LAMBDA s : [ neg |-> a.neg, abs |-> s ])
    ELSE Bind(FAbsDiff(a.abs, b.abs), LAMBDA d :
              [ neg |-> d # FZero /\ (IF FLess(a.abs, b.abs) THEN b.neg ELSE a.neg),
                abs |-> d ])

\* a > 0
SPositive(a) == ~a.neg /\ a.abs # FZero

\* a rate in dollars per stream as the float the rate table holds, from
\* ten-thousandths of a dollar
Rate(tenthousandths) == FDiv(FromInt(tenthousandths), FromInt(10000))

\* DecayLoader.get_multipliers: the values of the years relative to that of
\* year 1
get_multipliers(excel_multipliers) ==
    SubSeq([ year \in 1..NumYears |->
               FDiv(Multiplier(excel_multipliers[year]), Multiplier(excel_multipliers[1])) ],
           1, NumYears)

\* an exception raised: its type and the argument its message names
Raised(type, names) == [ type |-> type, names |-> names ]

\* CashFlowEngine.compute_yearly_revenues: gross_rev of the ten years
YearlyGross(year1_total_rev, decay_multipliers) ==
    SubSeq([ year \in 1..NumYears |-> SMul(year1_total_rev, SOf(decay_multipliers[year])) ],
           1, NumYears)

\* analyze_deal, the result once the engine is built: the year-1 revenue, the
\* multipliers given to the engine and the yearly gross revenues
AnalysisResult(a, year1_total_rev, decay_multipliers_for_engine) ==
    [ a EXCEPT !.pc = "done",
               !.result = [ year1_total_rev  |-> year1_total_rev,
                            decay_multipliers |-> decay_multipliers_for_engine,
                            label_share       |-> a.label_share,
                            gross_revenue     |-> YearlyGross(year1_total_rev,
                                                              decay_multipliers_for_engine) ] ]

\* analyze_deal: eff_weekly_audio and eff_weekly_video, for catalog_tracks # 0
EffectiveWeekly(weekly, extra_tracks, catalog_tracks) ==
    Bind(SDiv(weekly, SFromInt(catalog_tracks)), LAMBDA mean_per_track :
    Bind(SMul(SFromInt(extra_tracks), mean_per_track), LAMBDA extra :
    SAdd(weekly, extra)))

\* analyze_deal, annual decay mode: base_annual_audio_rev, base_annual_video_rev
BaseAnnualRev(eff_weekly, rate) ==
    Bind(SMul(eff_weekly, SFromInt(WeeksPerYear)), LAMBDA annual_streams :
    SMul(annual_streams, SOf(rate)))

\* analyze_deal, annual decay mode: year1_total_rev
AnnualYear1TotalRev(a) ==
    Bind(BaseAnnualRev(a.eff_weekly_audio, a.rate_inputs.blended_audio_rate), LAMBDA audio_rev :
    Bind(BaseAnnualRev(a.eff_weekly_video, a.rate_inputs.video_rate), LAMBDA video_rev :
    SAdd(audio_rev, video_rev)))

\* analyze_deal, weekly decay mode: week0_revenue
Week0Revenue(a) ==
    Bind(SMul(a.eff_weekly_audio, SOf(a.rate_inputs.blended_audio_rate)), LAMBDA audio_rev :
    Bind(SMul(a.eff_weekly_video, SOf(a.rate_inputs.video_rate)), LAMBDA video_rev :
    SAdd(audio_rev, video_rev)))

\* analyze_deal from the choice of the decay mode on: the shifted curve when
\* weekly rates are given and weeks_post_peak > 0 (build_shifted_curve first
\* checks its arguments), the weekly curve in weekly mode otherwise, and the
\* annual multipliers in annual mode
ChooseDecayMode(a) ==
    IF a.inputs.decay_mode = "weekly" /\ a.rate_inputs.weekly_rates
       /\ a.inputs.weeks_post_peak > 0
    THEN IF a.eff_weekly_audio.neg
         THEN [ a EXCEPT !.pc = "raised",
                         !.error = Raised("ValueError", "current_weekly_audio_streams") ]
         ELSE IF a.eff_weekly_video.neg
         THEN [ a EXCEPT !.pc = "raised",
                         !.error = Raised("ValueError", "current_weekly_video_streams") ]
         ELSE [ a EXCEPT !.pc = "build_shifted_curve" ]
    ELSE IF a.inputs.decay_mode = "weekly"
    THEN [ a EXCEPT !.pc = IF a.rate_inputs.weekly_rates
                           THEN "build_weekly_curve_with_rates"
                           ELSE "build_weekly_curve",
                    !.week0_revenue = Week0Revenue(a) ]
    ELSE Bind(AnnualYear1TotalRev(a), LAMBDA year1_total_rev :
         AnalysisResult(a, year1_total_rev, a.rate_inputs.decay_multipliers))

\* analyze_deal up to the choice of the decay mode: the check of
\* weeks_post_peak, the streams per track, the effective streams and the
\* label share
analyze_deal(a) ==
    IF a.inputs.weeks_post_peak < 0
    THEN [ a EXCEPT !.pc = "raised", !.error = Raised("ValueError", "weeks_post_peak") ]
    ELSE IF a.inputs.catalog_tracks = 0
    THEN [ a EXCEPT !.pc = "raised", !.error = Raised("ZeroDivisionError", "") ]
    ELSE Bind(EffectiveWeekly(a.inputs.weekly_audio, a.inputs.extra_tracks,
                              a.inputs.catalog_tracks), LAMBDA eff_weekly_audio :
         Bind(EffectiveWeekly(a.inputs.weekly_video, a.inputs.extra_tracks,
                              a.inputs.catalog_tracks), LAMBDA eff_weekly_video :
         ChooseDecayMode([ a EXCEPT !.eff_weekly_audio = eff_weekly_audio,
                                    !.eff_weekly_video = eff_weekly_video,
                                    !.label_share = compute_label_share(a.inputs.deal_type,
                                                                        a.inputs.deal_percent) ])))

\* extend_curve_beyond_520
extend_curve_beyond_520(level_curve, d_10, extra_weeks) ==
    LoopUntil(LAMBDA st : [ n |-> st.n + 1,
                            extended |-> Append(st.extended,
                                                FMul(st.extended[Len(st.extended)], d_10)) ],
              [ n |-> 0, extended |-> level_curve ], extra_weeks).extended

\* build_shifted_curve: scale_audio and scale_video
ScaleFactor(current_weekly_streams, anchor_level) ==
    IF current_weekly_streams # FZero THEN FDiv(current_weekly_streams, anchor_level)
    ELSE FZero

\* the total of a year when its weeks are counted from week 1 whatever the
\* weeks after the peak
ShiftedYearTotal_Unshifted(level_curve, k, scale_audio, scale_video, blended_audio_rate, video_rate, year) ==
    LET start_week == 1 + (year - 1) * WeeksPerYear
        end_week   == WeeksPerYear + (year - 1) * WeeksPerYear
    IN  Bind(FSum(SubSeq(level_curve, start_week, end_week)), LAMBDA year_level_sum :
        Bind(FMul(FMul(scale_audio, year_level_sum), blended_audio_rate), LAMBDA audio_rev :
        Bind(FMul(FMul(scale_video, year_level_sum), video_rate), LAMBDA video_rev :
        FAdd(audio_rev, video_rev))))

\* build_shifted_curve: shifted_annual_totals[year]
ShiftedYearTotal(level_curve, k, scale_audio, scale_video, blended_audio_rate, video_rate, year) ==
    LET start_week == 1 + (year - 1) * WeeksPerYear + k
        end_week   == WeeksPerYear + (year - 1) * WeeksPerYear + k
    IN  Bind(FSum(SubSeq(level_curve, start_week, end_week)), LAMBDA year_level_sum :
        Bind(FMul(FMul(scale_audio, year_level_sum), blended_audio_rate), LAMBDA audio_rev :
        Bind(FMul(FMul(scale_video, year_level_sum), video_rate), LAMBDA video_rev :
        FAdd(audio_rev, video_rev))))

\* the totals of the years relative to that of year 1, for a positive one
RelativeToYear1(annual_totals) ==
    SubSeq([ y \in 1..NumYears |-> FDiv(annual_totals[y], annual_totals[1]) ], 1, NumYears)

\* build_shifted_curve once the unshifted curve is built, for streams >= 0:
\* the extension, the anchor, the scale factors, the shifted annual totals
\* and the shifted multipliers (the levels are positive)
ShiftedCurve(curve, weeks_post_peak, current_weekly_audio_streams, current_weekly_video_streams, blended_audio_rate, video_rate) ==
    Bind(extend_curve_beyond_520(curve.level_curve, curve.yearly_decay_factors[NumYears][1],
                                 weeks_post_peak), LAMBDA level_curve :
    Bind(ScaleFactor(current_weekly_audio_streams, level_curve[1 + weeks_post_peak]),
         LAMBDA scale_audio :
    Bind(ScaleFactor(current_weekly_video_streams, level_curve[1 + weeks_post_peak]),
         LAMBDA scale_video :
    Bind(SubSeq([ year \in 1..NumYears |->
                    ShiftedYearTotal(level_curve, weeks_post_peak, scale_audio, scale_video,
                                     blended_audio_rate, video_rate, year) ], 1, NumYears),
         LAMBDA shifted_annual_totals :
    [ anchor_level               |-> level_curve[1 + weeks_post_peak],
      scale_factor_audio         |-> scale_audio,
      scale_factor_video         |-> scale_video,
      shifted_annual_totals      |-> shifted_annual_totals,
      shifted_annual_multipliers |->
          IF shifted_annual_totals[1] # FZero THEN RelativeToYear1(shifted_annual_totals)
          ELSE [ y \in 1..NumYears |-> FZero ] ]))))

\* what a track adds to annual_totals[year] when the last week of each of its
\* years is left out
TrackYearTotal_OneWeekShort(level_curve, k, scale_audio, scale_video, blended_audio_rate, video_rate, year) ==
    LET start_week == 1 + (year - 1) * WeeksPerYear + k
        end_week   == WeeksPerYear + (year - 1) * WeeksPerYear + k
    IN  Bind(FSum(SubSeq(level_curve, start_week, end_week - 1)), LAMBDA year_level_sum :
        Bind(FMul(FMul(scale_audio, year_level_sum), blended_audio_rate), LAMBDA audio_rev :
        Bind(FMul(FMul(scale_video, year_level_sum), video_rate), LAMBDA video_rev :
        FAdd(audio_rev, video_rev))))

\* compute_track_level_revenues: what a track adds to annual_totals[year]
TrackYearTotal(level_curve, k, scale_audio, scale_video, blended_audio_rate, video_rate, year) ==
    LET start_week == 1 + (year - 1) * WeeksPerYear + k
        end_week   == WeeksPerYear + (year - 1) * WeeksPerYear + k
        start_idx  == Max(0, start_week - 1)
        end_idx    == Min(end_week - 1, Len(level_curve) - 1)
    IN  Bind(IF start_idx <= end_idx THEN FSum(SubSeq(level_curve, start_idx + 1, end_idx + 1))
             ELSE FZero, LAMBDA year_level_sum :
        Bind(FMul(FMul(scale_audio, year_level_sum), blended_audio_rate), LAMBDA audio_rev :
        Bind(FMul(FMul(scale_video, year_level_sum), video_rate), LAMBDA video_rev :
        FAdd(audio_rev, video_rev))))

\* compute_track_level_revenues: what a track with the given weekly streams,
\* k weeks after its release, adds to the annual totals of the ten years
TrackTotals(level_curve, k, audio_streams, video_streams, blended_audio_rate, video_rate) ==
    LET anchor_level == level_curve[Min(k, Len(level_curve) - 1) + 1]
    IN  Bind(IF SPositive(audio_streams) THEN FDiv(audio_streams.abs, anchor_level) ELSE FZero,
             LAMBDA scale_audio :
        Bind(IF SPositive(video_streams) THEN FDiv(video_streams.abs, anchor_level) ELSE FZero,
             LAMBDA scale_video :
        SubSeq([ year \in 1..NumYears |->
                   TrackYearTotal(level_curve, k, scale_audio, scale_video,
                                  blended_audio_rate, video_rate, year) ], 1, NumYears)))

\* compute_track_level_revenues: one iteration of the loop over the tracks;
\* st.n tracks are processed
TrackStep(level_curve, tracks, blended_audio_rate, video_rate, st) ==
    LET track == tracks[st.n + 1]
        audio == SFromInt(track.weekly_us_audio_streams)
        video == SFromInt(track.weekly_us_video_streams)
    IN  Bind(SAdd(st.total_weekly_audio, audio), LAMBDA total_weekly_audio :
        Bind(SAdd(st.total_weekly_video, video), LAMBDA total_weekly_video :
        IF ~SPositive(audio) /\ ~SPositive(video)
        THEN [ st EXCEPT !.n = st.n + 1,
                         !.total_weekly_audio = total_weekly_audio,
                         !.total_weekly_video = total_weekly_video ]
        ELSE Bind(TrackTotals(level_curve, Max(0, track.weeks_since_release), audio, video,
                              blended_audio_rate, video_rate), LAMBDA added :
             [ n |-> st.n + 1,
               total_weekly_audio |-> total_weekly_audio,
               total_weekly_video |-> total_weekly_video,
               annual_totals |-> SubSeq([ y \in 1..NumYears |->
                                            FAdd(st.annual_totals[y], added[y]) ],
                                        1, NumYears) ])))

\* compute_track_level_revenues: one iteration of the loop over the extra
\* tracks, which start at the peak with the average streams of a track
ExtraTrackStep(level_curve, avg_audio_per_track, avg_video_per_track, blended_audio_rate, video_rate, st) ==
    Bind(TrackTotals(level_curve, 0, SOf(avg_audio_per_track.abs), SOf(avg_video_per_track.abs),
                     blended_audio_rate, video_rate), LAMBDA added :
    Bind(SAdd(st.total_weekly_audio, avg_audio_per_track), LAMBDA total_weekly_audio :
    Bind(SAdd(st.total_weekly_video, avg_video_per_track), LAMBDA total_weekly_video :
    [ n |-> st.n + 1,
      total_weekly_audio |-> total_weekly_audio,
      total_weekly_video |-> total_weekly_video,
      annual_totals |-> SubSeq([ y \in 1..NumYears |-> FAdd(st.annual_totals[y], added[y]) ],
                               1, NumYears) ])))

-----------------------------------------------------------------------------
(* src/src/pricer/decay_weekly.py: the weekly revenue curve                *)
(* (build_weekly_curve_with_rates, build_weekly_curve,                     *)
(* solve_weekly_factor_for_target), one action per step                    *)

\* tolerance of solve_weekly_factor_for_target and of geometric_sum's test for
\* factor = 1: 1e-9 and 1e-12
WeeklyTolerance == FDiv(FOne, FromInt(10^9))

\* max_iterations of solve_weekly_factor_for_target
MaxWeeklyIterations == 200

\* the bounds of the binary search: d_low, d_high = 0.001, 10.0
WeeklyLow == FDiv(FOne, FromInt(1000))

WeeklyHigh == FromInt(10)

\* geometric_sum for start > 0 and factor > 0; 1 - factor ** n and 1 - factor
\* have the same sign
geometric_sum(start, factor, n) ==
    IF FLess(FAbsDiff(factor, FOne), SolveTolerance)
    THEN FMul(start, FromInt(n))
    ELSE Bind(FPow(factor, n), LAMBDA fn :
         Bind(FMul(start, FAbsDiff(FOne, fn)), LAMBDA numerator :
         Bind(FAbsDiff(FOne, factor), LAMBDA denominator :
         FDiv(numerator, denominator))))

\* solve_weekly_factor_for_target on entry, for start_level > 0 and
\* target_sum > 0: the factor 1.0 when the target is the flat sum, and else
\* the search interval with no iteration made
WeeklySolveStart(start_level, target_sum) ==
    Bind(FAbsDiff(target_sum, FMul(start_level, FromInt(WeeksPerYear))), LAMBDA flat_error :
    [ start_level |-> start_level, target_sum |-> target_sum,
      d_low |-> WeeklyLow, d_high |-> WeeklyHigh, n |-> 0,
      d |-> IF FLess(flat_error, WeeklyTolerance) THEN Some(FOne) ELSE None ])

\* one iteration of the binary search of solve_weekly_factor_for_target.  When
\* d_mid is one of the two bounds the iterations left change neither bound,
\* and they are passed over.
WeeklySolveStep(st) ==
    Bind(SolveMid(st), LAMBDA d_mid :
    Bind(geometric_sum(st.start_level, d_mid, WeeksPerYear), LAMBDA current_sum :
    Bind(FAbsDiff(current_sum, st.target_sum), LAMBDA error :
        IF FLess(error, WeeklyTolerance)
        THEN [ st EXCEPT !.n = st.n + 1, !.d = Some(d_mid) ]
        ELSE IF d_mid = st.d_low \/ d_mid = st.d_high
        THEN [ st EXCEPT !.n = MaxWeeklyIterations ]
        ELSE IF FLess(current_sum, st.target_sum)
        THEN [ st EXCEPT !.n = st.n + 1, !.d_low = d_mid ]
        ELSE [ st EXCEPT !.n = st.n + 1, !.d_high = d_mid ])))

\* build_weekly_curve_with_rates: the magnitudes of the revenues of the weeks
\* 0..52 of year 1
WeeklyYear1Revenues(week0_revenue, weekly_rates) ==
    LoopUntil(LAMBDA st : [ n |-> st.n + 1,
                            weekly_revenues |->
                                Append(st.weekly_revenues,
                                       FMul(st.weekly_revenues[st.n + 1],
                                            weekly_rates[st.n + 1])) ],
              [ n |-> 0, weekly_revenues |-> << week0_revenue >> ],
              WeeksPerYear).weekly_revenues

\* the weekly curve after year 1: the sign of the revenues, the last weekly
\* revenue, year1_total and annual_revenues[1], in magnitude
WeeklyCurveYear1(neg, weekly_revenues, year1_total) ==
    Bind(FSum(weekly_revenues), LAMBDA year1_sum :
    [ pc                   |-> "year",
      neg                  |-> neg,
      last                 |-> weekly_revenues[Len(weekly_revenues)],
      year1_total          |-> year1_total,
      annual_revenues      |-> << year1_sum >>,
      yearly_decay_factors |-> << None >>,
      solve                |-> <<>> ])

\* the 52 revenues of a year from its factor: start_level * d_y ** week for
\* the weeks 0..51
WeeklyYearRevenues(start_level, d_y) ==
    SubSeq([ j \in 1..WeeksPerYear |->
               IF j = 1 THEN start_level ELSE FMul(start_level, FPow(d_y, j - 1)) ],
           1, WeeksPerYear)

\* the end of an iteration of the loop over the years 2..10, once the factor
\* d_y of the year is solved
WeeklyCurveYear(weekly, d_y) ==
    Bind(WeeklyYearRevenues(weekly.solve.start_level, d_y), LAMBDA revenues :
    Bind(FSum(revenues), LAMBDA year_sum :
    [ weekly EXCEPT !.pc = "year",
                    !.last = revenues[WeeksPerYear],
                    !.annual_revenues = Append(weekly.annual_revenues, year_sum),
                    !.yearly_decay_factors = Append(weekly.yearly_decay_factors, Some(d_y)),
                    !.solve = <<>> ]))

\* annual_multipliers of the weekly curve, for year1_total # 0
WeeklyAnnualMultipliers(annual_revenues, year1_total) ==
    SubSeq([ y \in 1..NumYears |-> FDiv(annual_revenues[y], year1_total) ], 1, NumYears)

-----------------------------------------------------------------------------
(* src/src/deal_analysis.py and src/src/pricer/model.py: an analysis, from *)
(* the request to the yearly gross revenues, one action per function       *)

\* compute_track_level_revenues once the unshifted curve is built, for a
\* catalog that is not empty and, where there are extra tracks, streams >= 0
\* in total: annual_totals, total_weekly_audio and total_weekly_video
compute_track_level_revenues(tracks, curve, blended_audio_rate, video_rate, extra_tracks) ==
    LET max_weeks       == CHOOSE w \in { tracks[i].weeks_since_release : i \in 1..Len(tracks) } :
                               \A i \in 1..Len(tracks) : tracks[i].weeks_since_release <= w
        max_week_needed == NumYears * WeeksPerYear + max_weeks
        extra_weeks     == max_week_needed - Len(curve.level_curve)
    IN  Bind(IF extra_weeks > 0
             THEN extend_curve_beyond_520(curve.level_curve,
                                          curve.yearly_decay_factors[NumYears][1], extra_weeks)
             ELSE curve.level_curve, LAMBDA level_curve :
        Bind(LoopUntil(LAMBDA st : TrackStep(level_curve, tracks, blended_audio_rate,
                                             video_rate, st),
                       [ n |-> 0,
                         total_weekly_audio |-> SFromInt(0),
                         total_weekly_video |-> SFromInt(0),
                         annual_totals |-> [ y \in 1..NumYears |-> FZero ] ],
                       Len(tracks)), LAMBDA catalog :
        IF extra_tracks <= 0 THEN catalog
        ELSE Bind(SDiv(catalog.total_weekly_audio, SFromInt(Len(tracks))),
                  LAMBDA avg_audio_per_track :
             Bind(SDiv(catalog.total_weekly_video, SFromInt(Len(tracks))),
                  LAMBDA avg_video_per_track :
             LoopUntil(LAMBDA st : ExtraTrackStep(level_curve, avg_audio_per_track,
                                                  avg_video_per_track, blended_audio_rate,
                                                  video_rate, st),
                       [ catalog EXCEPT !.n = 0 ], extra_tracks)))))

\* DealInputs of a request
DealInputs(weekly_audio, weekly_video, catalog_tracks, extra_tracks, deal_type, deal_percent, decay_mode, weeks_post_peak) ==
    [ weekly_audio    |-> weekly_audio,
      weekly_video    |-> weekly_video,
      catalog_tracks  |-> catalog_tracks,
      extra_tracks    |-> extra_tracks,
      deal_type       |-> deal_type,
      deal_percent    |-> deal_percent,
      decay_mode      |-> decay_mode,
      weeks_post_peak |-> weeks_post_peak ]

\* RateInputs; weekly_rates tells whether the weekly rates of the calibration
\* are given
RateInputs(blended_audio_rate, video_rate, decay_multipliers, weekly_rates) ==
    [ blended_audio_rate |-> blended_audio_rate,
      video_rate         |-> video_rate,
      decay_multipliers  |-> decay_multipliers,
      weekly_rates       |-> weekly_rates ]

\* DealAnalyzer.analyze in aggregate mode, up to the call of analyze_deal
AnalyzeAggregate(a, excel_multipliers) ==
    [ a EXCEPT
        !.pc = "analyze_deal",
        !.inputs = DealInputs(SFromInt(a.request.weekly_audio_streams),
                              SFromInt(a.request.weekly_video_streams),
                              a.request.catalog_track_count, a.request.extra_tracks,
                              a.request.deal_type, a.request.deal_percent,
                              "annual", a.request.weeks_post_peak),
        !.rate_inputs = RateInputs(Rate(a.request.audio_rate), Rate(a.request.video_rate),
                                   get_multipliers(excel_multipliers),
                                   a.request.has_weekly_rates) ]

\* DealAnalyzer.analyze in track-level mode, from the return of
\* compute_track_level_revenues to the call of analyze_deal
AnalyzeTrackLevel(a, excel_multipliers, track_level) ==
    [ a EXCEPT
        !.pc = "analyze_deal",
        !.track_level = track_level,
        !.inputs = DealInputs(track_level.total_weekly_audio, track_level.total_weekly_video,
                              Len(a.request.track_data), 0,
                              a.request.deal_type, a.request.deal_percent, "annual", 0),
        !.rate_inputs = RateInputs(Rate(a.request.audio_rate), Rate(a.request.video_rate),
                                   IF track_level.annual_totals[1] # FZero
                                   THEN RelativeToYear1(track_level.annual_totals)
                                   ELSE get_multipliers(excel_multipliers),
                                   FALSE) ]

\* an analysis before its first step: a DealAnalysisRequest given to
\* DealAnalyzer.analyze, or DealInputs and RateInputs given to analyze_deal;
\* previous is the result of the request the analyzer served before
AnalysisStart(req, excel_multipliers, previous) ==
    [ pc               |-> IF req.via = "analyze" THEN "analyze" ELSE "analyze_deal",
      request          |-> req,
      inputs           |-> IF req.via = "analyze" THEN <<>>
                           ELSE DealInputs(SFromInt(req.weekly_audio_streams),
                                           SFromInt(req.weekly_video_streams),
                                           req.catalog_track_count, req.extra_tracks,
                                           req.deal_type, req.deal_percent,
                                           req.decay_mode, req.weeks_post_peak),
      rate_inputs      |-> IF req.via = "analyze" THEN <<>>
                           ELSE RateInputs(Rate(req.audio_rate), Rate(req.video_rate),
                                           get_multipliers(excel_multipliers),
                                           req.has_weekly_rates),
      eff_weekly_audio |-> <<>>,
      eff_weekly_video |-> <<>>,
      label_share      |-> <<>>,
      week0_revenue    |-> <<>>,
      track_level      |-> <<>>,
      result           |-> <<>>,
      error            |-> <<>>,
      previous         |-> previous ]

\* scenario 1 of the specification as a request in aggregate mode; the rates
\* are in ten-thousandths of a dollar per stream, the deal percent in percent
BaseRequest ==
    [ via                   |-> "analyze",
      use_track_level_decay |-> FALSE,
      track_data            |-> <<>>,
      decay_mode            |-> "annual",
      has_weekly_rates      |-> TRUE,
      weekly_audio_streams  |-> 500000,
      weekly_video_streams  |-> 100000,
      catalog_track_count   |-> 20,
      extra_tracks          |-> 0,
      deal_type             |-> "distribution",
      deal_percent          |-> 25,
      weeks_post_peak       |-> 0,
      audio_rate            |-> 40,
      video_rate            |-> 20 ]

\* a track of a catalog
TrackData(weekly_us_audio_streams, weekly_us_video_streams, weeks_since_release) ==
    [ weekly_us_audio_streams |-> weekly_us_audio_streams,
      weekly_us_video_streams |-> weekly_us_video_streams,
      weeks_since_release     |-> weeks_since_release ]

\* the catalog of one track at its peak that has all the streams of a request
SingleTrack(req) ==
    << TrackData(req.weekly_audio_streams, req.weekly_video_streams, 0) >>

\* the requests made of analyze_deal in a decay mode, with or without the
\* weekly rates of the calibration
Direct(req, decay_mode, has_weekly_rates) ==
    [ req EXCEPT !.via = "analyze_deal", !.decay_mode = decay_mode,
                 !.has_weekly_rates = has_weekly_rates ]

\* a request with other streams
WithStreams(req, weekly_audio_streams, weekly_video_streams) ==
    [ req EXCEPT !.weekly_audio_streams = weekly_audio_streams,
                 !.weekly_video_streams = weekly_video_streams ]

\* a request in track-level mode
TrackLevel(req, track_data) ==
    [ req EXCEPT !.use_track_level_decay = TRUE, !.track_data = track_data ]

\* requests that differ from a request in the streams, the rates or the
\* weeks after the peak
StreamDeviations(req) ==
    { req,
      [ req EXCEPT !.weeks_post_peak = 26 ],
      [ req EXCEPT !.weeks_post_peak = -1 ],
      WithStreams(req, 0, 0),
      WithStreams(req, -1000, 0),
      WithStreams(req, -1000, req.weekly_video_streams),
      WithStreams([ req EXCEPT !.weeks_post_peak = 26 ], -1000, req.weekly_video_streams),
      WithStreams([ req EXCEPT !.weeks_post_peak = 26 ], req.weekly_audio_streams, -500),
      [ req EXCEPT !.audio_rate = 0, !.video_rate = 0 ],
      [ req EXCEPT !.catalog_track_count = 0 ] }

\* requests without streams, without rates or with an argument out of range
EdgeDeviations(req) ==
    { req,
      [ req EXCEPT !.weeks_post_peak = -1 ],
      WithStreams(req, 0, 0),
      WithStreams(req, -1000, 0),
      [ req EXCEPT !.audio_rate = 0, !.video_rate = 0 ] }

\* requests that differ from a request in the deal or the catalog
DealDeviations(req) ==
    { [ req EXCEPT !.deal_percent = 150 ],
      [ req EXCEPT !.deal_percent = -10 ],
      [ req EXCEPT !.deal_type = "royalty", !.deal_percent = 150 ],
      [ req EXCEPT !.catalog_track_count = -5 ],
      [ req EXCEPT !.extra_tracks = 2 ] }

\* the requests in track-level mode: a catalog of two tracks of different
\* ages, with and without extra tracks, and catalogs with a track without
\* streams or with negative streams
TrackLevelRequests ==
    { TrackLevel([ BaseRequest EXCEPT !.extra_tracks = 2 ],
                 << TrackData(400000, 100000, 30), TrackData(100000, 0, -3),
                    TrackData(0, 0, 60) >>),
      TrackLevel(BaseRequest, << TrackData(-1000, 100000, 0) >>),
      TrackLevel([ BaseRequest EXCEPT !.has_weekly_rates = FALSE ], SingleTrack(BaseRequest)) }

\* the calibrations of the analyses: the first weekly rates with the first
\* and with the steep multipliers
AnalysisCalibration(steep) ==
    CHOOSE c \in Calibrations :
        /\ c.wow_percents[1] # 50
        /\ \A d \in Calibrations : d.wow_percents[1] # 50 => c.wow_percents[1] >= d.wow_percents[1]
        /\ c.excel_multipliers[1] = 10^6
        /\ c.excel_multipliers[2] = IF steep THEN 300 ELSE 600000

\* the first requests of the analyzers, each with its calibration
Scenarios ==
    ({ FALSE } \X ( StreamDeviations(BaseRequest)
                    \cup DealDeviations(BaseRequest)
                    \cup StreamDeviations(Direct(BaseRequest, "annual", TRUE))
                    \cup DealDeviations(Direct(BaseRequest, "annual", TRUE))
                    \cup StreamDeviations(Direct(BaseRequest, "weekly", TRUE))
                    \cup EdgeDeviations(Direct(BaseRequest, "weekly", FALSE))
                    \cup { WithStreams([ Direct(BaseRequest, "weekly", TRUE)
                                           EXCEPT !.weeks_post_peak = 26 ], 0, 0) }
                    \cup TrackLevelRequests ))
    \cup ({ TRUE } \X { BaseRequest, Direct(BaseRequest, "weekly", TRUE),
                        [ BaseRequest EXCEPT !.weeks_post_peak = -1 ] })

\* the request that follows a request in aggregate mode with
\* weeks_post_peak = 0: the same request 26 weeks after the peak, or the same
\* request in track-level mode with one track that has all the streams
FollowingRequests(req) ==
    { [ req EXCEPT !.weeks_post_peak = 26 ], TrackLevel(req, SingleTrack(req)) }

AnalysisInit ==
    \E scenario \in Scenarios :
        /\ curve_args = AnalysisCalibration(scenario[1])
        /\ curve_result = <<>>
        /\ weekly_result = <<>>
        /\ analysis = AnalysisStart(scenario[2], curve_args.excel_multipliers, <<>>)

\* the unshifted curve of the analysis is built
CurveBuilt ==
    /\ curve_result # <<>>
    /\ curve_result.pc = "year"
    /\ Len(curve_result.unshifted_annual_sums) = NumYears

\* DealAnalyzer.analyze: the choice between track-level and aggregate mode,
\* and in aggregate mode the inputs of analyze_deal
Analyze ==
    /\ analysis # <<>>
    /\ analysis.pc = "analyze"
    /\ analysis' =
           IF /\ analysis.request.use_track_level_decay
              /\ analysis.request.has_weekly_rates
              /\ analysis.request.track_data # <<>>
           THEN [ analysis EXCEPT !.pc = "compute_track_level_revenues" ]
           ELSE AnalyzeAggregate(analysis, curve_args.excel_multipliers)
    /\ UNCHANGED <<curve_args, curve_result, weekly_result, engineVars, loaderVars, solverVars>>

\* compute_track_level_revenues on the curve built, and DealAnalyzer.analyze
\* up to the call of analyze_deal
ComputeTrackLevelRevenues ==
    /\ analysis # <<>>
    /\ analysis.pc = "compute_track_level_revenues"
    /\ CurveBuilt
    /\ \E track_level \in { compute_track_level_revenues(
                                analysis.request.track_data, curve_result,
                                Rate(analysis.request.audio_rate),
                                Rate(analysis.request.video_rate),
                                analysis.request.extra_tracks) } :
           analysis' = AnalyzeTrackLevel(analysis, curve_args.excel_multipliers, track_level)
    /\ UNCHANGED <<curve_args, curve_result, weekly_result, engineVars, loaderVars, solverVars>>

\* analyze_deal up to the call that builds a weekly curve, and to its end in
\* annual mode
AnalyzeDeal ==
    /\ analysis # <<>>
    /\ analysis.pc = "analyze_deal"
    /\ \E a \in { analyze_deal(analysis) } : analysis' = a
    /\ UNCHANGED <<curve_args, curve_result, weekly_result, engineVars, loaderVars, solverVars>>

\* build_shifted_curve on the curve built, and analyze_deal to its end
ShiftCurve ==
    /\ analysis # <<>>
    /\ analysis.pc = "build_shifted_curve"
    /\ CurveBuilt
    /\ \E shifted_result \in { ShiftedCurve(curve_result, analysis.inputs.weeks_post_peak,
                                            analysis.eff_weekly_audio.abs,
                                            analysis.eff_weekly_video.abs,
                                            analysis.rate_inputs.blended_audio_rate,
                                            analysis.rate_inputs.video_rate) } :
           analysis' = AnalysisResult(analysis, SOf(shifted_result.shifted_annual_totals[1]),
                                      shifted_result.shifted_annual_multipliers)
    /\ UNCHANGED <<curve_args, curve_result, weekly_result, engineVars, loaderVars, solverVars>>

\* build_weekly_curve_with_rates: year 1; the division by week0_revenue
\* raises when it is zero
WeeklyYear1 ==
    /\ analysis # <<>>
    /\ analysis.pc = "build_weekly_curve_with_rates"
    /\ weekly_result = <<>>
    /\ IF analysis.week0_revenue.abs = FZero
       THEN /\ analysis' = [ analysis EXCEPT !.pc = "raised",
                                             !.error = Raised("ZeroDivisionError", "") ]
            /\ UNCHANGED weekly_result
       ELSE /\ \E weekly_revenues \in { WeeklyYear1Revenues(analysis.week0_revenue.abs,
                                                            WowRates(curve_args.wow_percents)) } :
               \E year1_total \in { FSum(weekly_revenues) } :
                   weekly_result' = WeeklyCurveYear1(analysis.week0_revenue.neg,
                                                     weekly_revenues, year1_total)
            /\ UNCHANGED analysis
    /\ UNCHANGED <<curve_args, curve_result, engineVars, loaderVars, solverVars>>

\* build_weekly_curve: the flat year 1
WeeklyFlatYear1 ==
    /\ analysis # <<>>
    /\ analysis.pc = "build_weekly_curve"
    /\ weekly_result = <<>>
    /\ \E year1_total \in { FMul(analysis.week0_revenue.abs, FromInt(WeeksPerYear + 1)) } :
           weekly_result' = WeeklyCurveYear1(analysis.week0_revenue.neg,
                                             [ w \in 1..(WeeksPerYear + 1) |->
                                                 analysis.week0_revenue.abs ],
                                             year1_total)
    /\ UNCHANGED <<curve_args, curve_result, analysis, engineVars, loaderVars, solverVars>>

\* the start of an iteration of the loop over the years 2..10 of a weekly
\* curve, up to the entry of solve_weekly_factor_for_target, which raises for
\* a start level or a target sum that is not positive
WeeklyStartYear ==
    /\ weekly_result # <<>>
    /\ weekly_result.pc = "year"
    /\ Len(weekly_result.annual_revenues) < NumYears
    /\ \E target_mult \in { FDiv(analysis.rate_inputs.decay_multipliers[
                                      Len(weekly_result.annual_revenues) + 1],
                                  analysis.rate_inputs.decay_multipliers[1]) } :
       \E target_sum \in { FMul(weekly_result.year1_total, target_mult) } :
           IF weekly_result.neg \/ weekly_result.last = FZero
           THEN /\ analysis' = [ analysis EXCEPT !.pc = "raised",
                                                 !.error = Raised("ValueError", "start_level") ]
                /\ weekly_result' = [ weekly_result EXCEPT !.pc = "raised" ]
           ELSE IF target_sum = FZero
           THEN /\ analysis' = [ analysis EXCEPT !.pc = "raised",
                                                 !.error = Raised("ValueError", "target_sum") ]
                /\ weekly_result' = [ weekly_result EXCEPT !.pc = "raised" ]
           ELSE /\ weekly_result' =
                       [ weekly_result EXCEPT !.pc = "solve",
                                              !.solve = WeeklySolveStart(weekly_result.last,
                                                                         target_sum) ]
                /\ UNCHANGED analysis
    /\ UNCHANGED <<curve_args, curve_result, engineVars, loaderVars, solverVars>>

\* solve_weekly_factor_for_target: one iteration of the binary search
WeeklySolveIteration ==
    /\ weekly_result # <<>>
    /\ weekly_result.pc = "solve"
    /\ weekly_result.solve.d = None
    /\ weekly_result.solve.n < MaxWeeklyIterations
    /\ \E st \in { WeeklySolveStep(weekly_result.solve) } :
           weekly_result' = [ weekly_result EXCEPT !.solve = st ]
    /\ UNCHANGED <<curve_args, curve_result, analysis, engineVars, loaderVars, solverVars>>

\* solve_weekly_factor_for_target returns 1.0 or d_mid of the iteration that
\* came within the tolerance, and the 52 weeks of the year are generated
WeeklySolveConverged ==
    /\ weekly_result # <<>>
    /\ weekly_result.pc = "solve"
    /\ weekly_result.solve.d # None
    /\ weekly_result' = WeeklyCurveYear(weekly_result, weekly_result.solve.d[1])
    /\ UNCHANGED <<curve_args, curve_result, analysis, engineVars, loaderVars, solverVars>>

\* solve_weekly_factor_for_target returns the middle of the interval after
\* the last iteration, and the 52 weeks of the year are generated
WeeklySolveExhausted ==
    /\ weekly_result # <<>>
    /\ weekly_result.pc = "solve"
    /\ weekly_result.solve.d = None
    /\ weekly_result.solve.n >= MaxWeeklyIterations
    /\ \E d_y \in { SolveMid(weekly_result.solve) } :
           weekly_result' = WeeklyCurveYear(weekly_result, d_y)
    /\ UNCHANGED <<curve_args, curve_result, analysis, engineVars, loaderVars, solverVars>>

\* the weekly curve is returned with its annual multipliers, and analyze_deal
\* goes on to its end
WeeklyReturn ==
    /\ weekly_result # <<>>
    /\ weekly_result.pc = "year"
    /\ Len(weekly_result.annual_revenues) = NumYears
    /\ \E annual_multipliers \in { WeeklyAnnualMultipliers(weekly_result.annual_revenues,
                                                           weekly_result.year1_total) } :
           analysis' = AnalysisResult(analysis, SOf(weekly_result.year1_total),
                                      annual_multipliers)
    /\ weekly_result' = [ weekly_result EXCEPT !.pc = "done" ]
    /\ UNCHANGED <<curve_args, curve_result, engineVars, loaderVars, solverVars>>

\* the analyzer is given the request that follows a request in aggregate mode
\* that it has served, one with weeks_post_peak = 0, no extra tracks and all
\* arguments in range
NextRequest ==
    /\ analysis # <<>>
    /\ analysis.pc = "done"
    /\ analysis.previous = <<>>
    /\ analysis.request.via = "analyze"
    /\ ~analysis.request.use_track_level_decay
    /\ analysis.request.weeks_post_peak = 0
    /\ analysis.request.extra_tracks = 0
    /\ analysis.request.weekly_audio_streams >= 0
    /\ analysis.request.weekly_video_streams >= 0
    /\ analysis.request.deal_percent \in 0..100
    /\ analysis.request.catalog_track_count >= 1
    /\ \E req \in FollowingRequests(analysis.request) :
           analysis' = AnalysisStart(req, curve_args.excel_multipliers, analysis.result)
    /\ UNCHANGED <<curve_args, curve_result, weekly_result, engineVars, loaderVars, solverVars>>

\* DealAnalyzer.analyze_viability up to the engine: year1_total, the
\* effective multipliers and the yearly gross revenues of the engine;
\* track_level is what compute_track_level_revenues returns for the request
ViabilityRevenues(req, excel_multipliers, track_level) ==
    LET aggregate_year1 ==
            SAdd(BaseAnnualRev(SFromInt(req.weekly_audio_streams), Rate(req.audio_rate)),
                 BaseAnnualRev(SFromInt(req.weekly_video_streams), Rate(req.video_rate)))
        use_track_level == /\ req.use_track_level_decay
                           /\ req.has_weekly_rates
                           /\ req.track_data # <<>>
    IN  Bind(IF use_track_level /\ track_level.annual_totals[1] # FZero
             THEN SOf(track_level.annual_totals[1])
             ELSE aggregate_year1, LAMBDA year1_total :
        Bind(IF use_track_level /\ track_level.annual_totals[1] # FZero
             THEN RelativeToYear1(track_level.annual_totals)
             ELSE get_multipliers(excel_multipliers), LAMBDA effective_multipliers :
        [ request       |-> req,
          year1_total   |-> year1_total,
          gross_revenue |-> YearlyGross(year1_total, effective_multipliers) ]))

\* DealAnalyzer.analyze_viability of the request that DealAnalyzer.analyze
\* has served, up to the engine
AnalyzeViability ==
    /\ analysis # <<>>
    /\ analysis.pc = "done"
    /\ analysis.request.via = "analyze"
    /\ viability = <<>>
    /\ \E revenues \in { ViabilityRevenues(analysis.request, curve_args.excel_multipliers,
                                            analysis.track_level) } :
           viability' = revenues
    /\ analysis' = [ analysis EXCEPT !.pc = "evaluated" ]
    /\ UNCHANGED <<request, payback_rec, irr_recs, curve_args, curve_result, weekly_result,
                   engineVars, loaderVars>>

AnalysisNext ==
    \/ Analyze
    \/ ComputeTrackLevelRevenues
    \/ AnalyzeDeal
    \/ ShiftCurve
    \/ BuildYear1
    \/ StartYear
    \/ SolveIteration
    \/ SolveConverged
    \/ SolveExhausted
    \/ WeeklyYear1
    \/ WeeklyFlatYear1
    \/ WeeklyStartYear
    \/ WeeklySolveIteration
    \/ WeeklySolveConverged
    \/ WeeklySolveExhausted
    \/ WeeklyReturn
    \/ NextRequest
    \/ AnalyzeViability

InitAnalysis == AnalysisInit /\ EngineIdle /\ LoaderIdle /\ SolverIdle

SpecAnalysis == InitAnalysis /\ [][AnalysisNext]_vars

\* a is less than b
SLess(a, b) ==
    IF a.neg /\ ~b.neg THEN a.abs # FZero \/ b.abs # FZero
    ELSE IF ~a.neg /\ b.neg THEN FALSE
    ELSE IF a.neg THEN FLess(b.abs, a.abs)
    ELSE FLess(a.abs, b.abs)

\* the analyzer has served a request in aggregate mode 26 weeks after the
\* peak, after the same request at the peak
PostPeakServed ==
    /\ analysis # <<>>
    /\ analysis.pc = "done"
    /\ analysis.previous # <<>>
    /\ ~analysis.request.use_track_level_decay
    /\ analysis.request.weeks_post_peak = 26

\* C14: for two analysis requests in aggregate mode that are identical except
\* for weeks_post_peak (26 and 0), the year-1 gross revenue reported for the
\* request with weeks_post_peak = 26 is strictly less than that reported for
\* the request with weeks_post_peak = 0.
C14_PostPeakYear1Less ==
    PostPeakServed =>
        SLess(analysis.result.year1_total_rev, analysis.previous.year1_total_rev)

\* the relative tolerance of the parity of the two modes: 1e-6
ParityTolerance == FDiv(FOne, FromInt(10^6))

\* a is b within the relative tolerance, for floats >= 0
WithinParity(a, b) ==
    a = b \/ FLess(FAbsDiff(a, b), FMul(ParityTolerance, b))

\* the analyzer has served a request in track-level mode with one track at
\* its peak, after the same request in aggregate mode
ParityServed ==
    /\ analysis # <<>>
    /\ analysis.pc = "done"
    /\ analysis.previous # <<>>
    /\ analysis.request.use_track_level_decay
    /\ analysis.request.track_data = SingleTrack(analysis.request)

\* the annual totals of build_shifted_curve with weeks_post_peak = 0 for the
\* streams and the rates of the request served
AggregateTotals ==
    ShiftedCurve(curve_result, 0,
                 FromInt(analysis.request.weekly_audio_streams),
                 FromInt(analysis.request.weekly_video_streams),
                 Rate(analysis.request.audio_rate),
                 Rate(analysis.request.video_rate)).shifted_annual_totals

ParityLeastTarget == FDiv(FOne, FromInt(10^5))

\* the weekly factor that year y of the curve requires lies inside the search
\* interval, and the target of the year is at least ParityLeastTarget
SolvableForParity(y) ==
    /\ curve_result.inside[y]
    /\ y > 1 => ~FLess(TargetSum(curve_result.s1, curve_args.excel_multipliers, y),
                       ParityLeastTarget)

AnalysisEnded == analysis # <<>> /\ analysis.pc \in { "done", "raised" }

\* the streams an analysis takes from a request: those of the tracks in
\* track-level mode, the weekly streams of the request otherwise
StreamsOf(req) ==
    IF req.via = "analyze" /\ req.use_track_level_decay /\ req.has_weekly_rates
       /\ req.track_data # <<>>
    THEN [ audio |-> { req.track_data[i].weekly_us_audio_streams : i \in 1..Len(req.track_data) },
           video |-> { req.track_data[i].weekly_us_video_streams : i \in 1..Len(req.track_data) } ]
    ELSE [ audio |-> { req.weekly_audio_streams }, video |-> { req.weekly_video_streams } ]

\* the names under which an error message can name the values of a request
\* that are out of range
OffendingNames(req) ==
    (IF req.weeks_post_peak < 0 THEN { "weeks_post_peak" } ELSE {})
    \cup (IF \E s \in StreamsOf(req).audio : s < 0
          THEN { "weekly_audio", "weekly_audio_streams", "current_weekly_audio_streams" }
          ELSE {})
    \cup (IF \E s \in StreamsOf(req).video : s < 0
          THEN { "weekly_video", "weekly_video_streams", "current_weekly_video_streams" }
          ELSE {})
    \cup (IF req.deal_percent \notin 0..100 THEN { "deal_percent" } ELSE {})
    \cup (IF req.catalog_track_count < 1 THEN { "catalog_tracks", "catalog_track_count" }
          ELSE {})

\* C16: an analysis request with negative weekly streams, a deal percent
\* outside [0, 1] (0..100 percent), catalog_tracks < 1 or weeks_post_peak < 0
\* ends, in every decay mode, with an input-validation error that names an
\* offending value, and neither with a result nor with another error (such
\* as a division by zero).
C16_InvalidInputRejected ==
    (AnalysisEnded /\ OffendingNames(analysis.request) # {}) =>
        /\ analysis.pc = "raised"
        /\ analysis.result = <<>>
        /\ analysis.error.type = "ValueError"
        /\ analysis.error.names \in OffendingNames(analysis.request)

\* a request made of analyze_deal without streams or without rates, its other
\* values in range
ZeroRequest(req) ==
    /\ req.via = "analyze_deal"
    /\ \/ req.weekly_audio_streams = 0 /\ req.weekly_video_streams = 0
       \/ req.audio_rate = 0 /\ req.video_rate = 0
    /\ OffendingNames(req) = {}

\* C18: with zero weekly audio and video streams, or zero rates, analyze_deal
\* never raises in any decay mode (annual, weekly with or without weekly
\* rates, shifted): it returns a result whose yearly gross revenues (and with
\* them the label's and the artist's cash and the recommended costs) are all
\* zero.
C18_ZeroInputsReturnZeros ==
    (AnalysisEnded /\ ZeroRequest(analysis.request)) =>
        /\ analysis.pc = "done"
        /\ \A y \in 1..NumYears : analysis.result.gross_revenue[y].abs = FZero

-----------------------------------------------------------------------------
(* Claims about a rate search that ends without a root                     *)
(* (src/src/pricer/payback.py)                                             *)

\* compute_payback_recommendation: annual_cash_flows, the label's yearly inflows
\* at the cost total_cost
AnnualCashFlowsAt(req, total_cost) ==
    LET cf_result == compute_weekly_cashflows(WeeklyGrossSeries(req), LabelShare(req),
                                              total_cost, req.advance_share,
                                              req.marketing_recoupable)
    IN  [ y \in 1..10 |-> SumRange(cf_result, (y - 1) * WeeksPerYear + 1,
                                   Min(y * WeeksPerYear, Len(cf_result))) ]

\* compute_annual_irr: abs(npv_mid) < tolerance, as far as a whole permille
\* resolves it: the net present value is zero at r or changes sign within a
\* permille of r
NpvWithinTolerance(total_cost, annual_cash_flows, r) ==
    \/ npv_at_rate(total_cost, annual_cash_flows, r) = 0
    \/ /\ npv_at_rate(total_cost, annual_cash_flows, r - 1) >= 0
       /\ npv_at_rate(total_cost, annual_cash_flows, r + 1) <= 0

\* C17: when the bisection of compute_annual_irr ends without a rate whose net
\* present value is within tolerance of zero, the implied IRR of the payback
\* recommendation is None: an implied IRR that is a number is a rate whose net
\* present value is within tolerance of zero.
C17_UnconvergedIrrIsNone ==
    (payback_rec # <<>> /\ payback_rec.implied_irr # None) =>
        NpvWithinTolerance(payback_rec.max_total_cost,
                           AnnualCashFlowsAt(request, payback_rec.max_total_cost),
                           payback_rec.implied_irr[1])

-----------------------------------------------------------------------------
(* The rate table (src/src/pricer/ppu.py)                                  *)
(*                                                                         *)
(* A name is a string.  A rate is held as a whole number of                *)
(* hundred-thousandths of a dollar, the decimal value of the cell it was   *)
(* read from; arithmetic on it is done on the float of that value.  A      *)
(* share is a whole number of percent, and the float of that percentage    *)
(* in arithmetic.                                                          *)

LowerCase == "abcdefghijklmnopqrstuvwxyz"

UpperCase == "ABCDEFGHIJKLMNOPQRSTUVWXYZ"

\* the characters of s that are in the alphabet from replaced by those at the
\* same place in the alphabet to
RECURSIVE MapCase(_, _, _)
MapCase(s, from, to) ==
    IF s = "" THEN ""
    ELSE LET c == SubSeq(s, 1, 1)
             at == { k \in 1..Len(from) : SubSeq(from, k, k) = c }
             mapped == IF at = {} THEN c
                       ELSE LET k == CHOOSE k \in at : TRUE IN SubSeq(to, k, k)
         IN  mapped \o MapCase(SubSeq(s, 2, Len(s)), from, to)

\* str.upper
upper(s) == MapCase(s, LowerCase, UpperCase)

\* str.lower
lower(s) == MapCase(s, UpperCase, LowerCase)

\* str.strip, of blanks
RECURSIVE strip(_)
strip(s) ==
    IF s = "" THEN s
    ELSE IF SubSeq(s, 1, 1) = " " THEN strip(SubSeq(s, 2, Len(s)))
    ELSE IF SubSeq(s, Len(s), Len(s)) = " " THEN strip(SubSeq(s, 1, Len(s) - 1))
    ELSE s

\* needle in hay, of two strings
Contains(needle, hay) ==
    \E i \in 0..(Len(hay) - Len(needle)) : SubSeq(hay, i + 1, i + Len(needle)) = needle

\* COUNTRY_ALIASES: each alias with the country it stands for
COUNTRY_ALIASES ==
    { <<"united states", "USA">>, <<"us", "USA">>, <<"usa", "USA">>, <<"america", "USA">>,
      <<"united kingdom", "UK">>, <<"great britain", "UK">>, <<"britain", "UK">>,
      <<"england", "UK">>, <<"uk", "UK">>,
      <<"south korea", "KOREA">>, <<"republic of korea", "KOREA">>, <<"korea", "KOREA">>,
      <<"hong kong sar", "HONG KONG">>, <<"hong kong", "HONG KONG">>,
      <<"uae", "UNITED ARAB EMIRATES">>,
      <<"united arab emirates", "UNITED ARAB EMIRATES">>,
      <<"netherlands", "NETHERLANDS">>, <<"holland", "NETHERLANDS">>,
      <<"russia", "RUSSIAN FEDERATION">>, <<"russian federation", "RUSSIAN FEDERATION">>,
      <<"czech", "CZECH REPUBLIC">>, <<"czechia", "CZECH REPUBLIC">>,
      <<"czech republic", "CZECH REPUBLIC">> }

EXCLUDED_COUNTRIES == {"AFRICA", "OTHERS"}

\* the unit of a rate held as a whole number: a hundred-thousandth of a dollar
RateUnit == 100 * 1000

\* parse_currency of a cell: a missing cell is 0.0, a number is itself
parse_currency(value) == IF value = None THEN 0 ELSE value[1]

\* the float of a rate
RateValue(rate) == FDiv(FromInt(rate), FromInt(RateUnit))

\* the float of a share given in percent
ShareValue(percent) == FDiv(FromInt(percent), FromInt(100))

CountryRate(country, audio_rate, video_rate) ==
    [ country |-> country, audio_rate |-> audio_rate, video_rate |-> video_rate ]

\* PPULoader._is_valid_country_row, of a row of the sheet other than the header
\* row: region and country are None where the cell is missing
is_valid_country_row(row) ==
    IF row.country = None THEN FALSE
    ELSE IF strip(row.country[1]) = "" THEN FALSE
    ELSE LET country_str == upper(strip(row.country[1]))
         IN  IF country_str \in EXCLUDED_COUNTRIES THEN FALSE
             ELSE IF row.region # None /\ Contains("Total", row.region[1])
             THEN country_str \in {"CANADA", "UK", "USA", "ISRAEL"}
             ELSE TRUE

\* dict assignment d[rate.country] = rate, the dict being the sequence of its
\* values in insertion order
DictPut(d, rate) ==
    IF \E i \in 1..Len(d) : d[i].country = rate.country
    THEN [ i \in 1..Len(d) |-> IF d[i].country = rate.country THEN rate ELSE d[i] ]
    ELSE Append(d, rate)

\* PPULoader._parse_rates: the loop over the rows from row_idx on; the header
\* row is row 1 of the sequence df
RECURSIVE parse_rates(_, _, _)
parse_rates(df, row_idx, country_rates) ==
    IF row_idx > Len(df) THEN country_rates
    ELSE IF row_idx = 1 \/ ~is_valid_country_row(df[row_idx])
    THEN parse_rates(df, row_idx + 1, country_rates)
    ELSE LET country == upper(strip(df[row_idx].country[1]))
             audio_rate == parse_currency(df[row_idx].audio)
             video_rate == parse_currency(df[row_idx].video)
         IN  IF audio_rate > 0 \/ video_rate > 0
             THEN parse_rates(df, row_idx + 1,
                              DictPut(country_rates,
                                      CountryRate(country, audio_rate, video_rate)))
             ELSE parse_rates(df, row_idx + 1, country_rates)

\* PPULoader.__init__ with _load: the instance built from the sheet df
PPULoader(df) == [ df |-> df, country_rates |-> parse_rates(df, 1, <<>>) ]

\* country in self._country_rates
Loaded(country_rates, country) ==
    \E i \in 1..Len(country_rates) : country_rates[i].country = country

\* self._country_rates[country]
RateOf(country_rates, country) ==
    country_rates[CHOOSE i \in 1..Len(country_rates) : country_rates[i].country = country]

\* PPULoader._normalize_country: the test of the partial match
PartialMatch(country_upper, country_lower, known_country) ==
    \/ Contains(country_upper, known_country)
    \/ Contains(known_country, country_upper)
    \/ Contains(country_lower, lower(known_country))
    \/ Contains(lower(known_country), country_lower)

\* PPULoader._normalize_country: the name of the loaded country, or None where
\* the code raises ValueError("Unknown country: ...")
normalize_country(country_rates, country) ==
    LET country_upper == upper(strip(country))
        country_lower == lower(strip(country))
        aliases == { a \in COUNTRY_ALIASES : a[1] = country_lower }
        partial == { i \in 1..Len(country_rates) :
                       PartialMatch(country_upper, country_lower, country_rates[i].country) }
    IN  IF Loaded(country_rates, country_upper) THEN Some(country_upper)
        ELSE IF aliases # {} /\ Loaded(country_rates, (CHOOSE a \in aliases : TRUE)[2])
        THEN Some((CHOOSE a \in aliases : TRUE)[2])
        ELSE IF partial # {}
        THEN Some(country_rates[CHOOSE i \in partial : \A j \in partial : i <= j].country)
        ELSE None

UnknownCountry == Raised("ValueError", "Unknown country")

InvalidMix == Raised("ValueError", "Market shares sum")

\* what a call returned, or what it raised
Returned(value) == [ value |-> Some(value), error |-> None ]

Failed(error) == [ value |-> None, error |-> Some(error) ]

\* PPULoader.get_rate
get_rate(country_rates, country) ==
    LET normalized == normalize_country(country_rates, country)
    IN  IF normalized = None THEN Failed(UnknownCountry)
        ELSE Returned(RateOf(country_rates, normalized[1]))

\* PPULoader.get_audio_rate
get_audio_rate(country_rates, country) ==
    LET rate == get_rate(country_rates, country)
    IN  IF rate.error # None THEN rate ELSE Returned(RateValue(rate.value[1].audio_rate))

\* the rates of get_average_audio_rate: the audio rates that are positive
PositiveAudioRates(country_rates) ==
    SelectSeq([ i \in 1..Len(country_rates) |-> country_rates[i].audio_rate ],
              LAMBDA r : r > 0)

\* get_average_audio_rate over every loaded country, those without an audio
\* rate too
get_average_audio_rate_AllCountries(country_rates) ==
    IF country_rates = <<>> THEN FZero
    ELSE FDiv(FSum([ i \in 1..Len(country_rates) |->
                       RateValue(country_rates[i].audio_rate) ]),
              FromInt(Len(country_rates)))

\* PPULoader.get_average_audio_rate
get_average_audio_rate(country_rates) ==
    LET rates == PositiveAudioRates(country_rates)
    IN  IF rates = <<>> THEN FZero
        ELSE FDiv(FSum([ i \in 1..Len(rates) |-> RateValue(rates[i]) ]),
                  FromInt(Len(rates)))

\* compute_blended_audio_rate: the loop over market_shares.items(), from the
\* item at position n on; market_shares is the sequence of the items
\* <<country, share>> of the dict
RECURSIVE WeightedRate(_, _, _, _)
WeightedRate(country_rates, market_shares, n, blended_rate) ==
    IF n > Len(market_shares) THEN Returned(blended_rate)
    ELSE LET normalized == normalize_country(country_rates, market_shares[n][1])
         IN  IF normalized = None THEN Failed(UnknownCountry)
             ELSE Bind(FAdd(blended_rate,
                            FMul(ShareValue(market_shares[n][2]),
                                 RateValue(RateOf(country_rates,
                                                  normalized[1]).audio_rate))),
                       LAMBDA next :
                           WeightedRate(country_rates, market_shares, n + 1, next))

\* compute_blended_audio_rate: the rest-of-world component added to the
\* weighted rate of the listed markets
AddRestOfWorld(country_rates, blended_rate, total_share, rest_mode) ==
    LET rest_share == FAbsDiff(FOne, total_share)
        rest_rate == IF rest_mode = "us" THEN get_audio_rate(country_rates, "USA")
                     ELSE Returned(get_average_audio_rate(country_rates))
    IN  IF rest_share = FZero THEN Returned(blended_rate)
        ELSE IF rest_rate.error # None THEN rest_rate
        ELSE Returned(FAdd(blended_rate, FMul(rest_share, rest_rate.value[1])))

\* PPULoader.compute_blended_audio_rate
compute_blended_audio_rate(country_rates, market_shares, rest_mode) ==
    LET total_share == FSum([ n \in 1..Len(market_shares) |->
                                ShareValue(market_shares[n][2]) ])
    IN  IF FLess(FOne, total_share) THEN Failed(InvalidMix)
        ELSE LET weighted == WeightedRate(country_rates, market_shares, 1, FZero)
             IN  IF weighted.error # None THEN weighted
                 ELSE AddRestOfWorld(country_rates, weighted.value[1], total_share,
                                     rest_mode)

(* The sheets, the names and the mixes of the rate table *)

SheetRow(region, country, audio, video) ==
    [ region |-> region, country |-> country, audio |-> audio, video |-> video ]

HeaderRow == SheetRow(Some("Region"), Some("Country"), None, None)

\* the sheets of the workbook: a sheet with totals of regions, an excluded
\* name, a row without rates and a country without an audio rate; a sheet
\* without the USA; a sheet without any audio rate
Worksheets ==
    { << HeaderRow,
         SheetRow(Some("USA Total"), Some("USA"), Some(400), Some(150)),
         SheetRow(Some("EUROPE"), Some("Germany"), Some(300), Some(100)),
         SheetRow(Some("UK Total"), Some("UK"), Some(350), Some(120)),
         SheetRow(Some("EUROPE Total"), None, Some(320), Some(110)),
         SheetRow(Some("AFRICA"), Some("Africa"), Some(100), Some(50)),
         SheetRow(Some("ASIA"), Some("India"), Some(0), Some(0)),
         SheetRow(Some("ASIA"), Some(" Korea "), None, Some(80)),
         SheetRow(Some("ASIA Total"), Some("Asia"), Some(90), Some(40)) >>,
      << HeaderRow,
         SheetRow(Some("EUROPE"), Some("Russian Federation"), Some(150), Some(60)),
         SheetRow(Some("EUROPE"), Some("Netherlands"), Some(310), Some(90)),
         SheetRow(None, Some("Australia"), Some(320), Some(100)) >>,
      << HeaderRow,
         SheetRow(Some("ASIA"), Some("Korea"), Some(0), Some(80)) >> }

\* the names looked up
LookupNames ==
    { "USA", "usa", " Usa ", "United States", "us", "america", "uk", "Holland",
      "Korea", "Germany", "", "a", "Ger", "Germany and France", "Atlantis" }

\* the names of the markets of a mix
MarketNames == << "USA", "united kingdom", "Korea", "Holland", "Atlantis" >>

\* the shares of the markets of a mix, in percent
MarketShares == {30, 70, 100}

\* a mix has MaxMarkets markets at most
MaxMarkets == 2

\* the mixes: the items of a dict of n markets, the keys distinct
MixesOf(n) ==
    { m \in [ 1..n -> (1..Len(MarketNames)) \X MarketShares ] :
        \A i, j \in 1..n : i # j => m[i][1] # m[j][1] }

MarketMixes ==
    UNION { { [ i \in 1..n |-> << MarketNames[m[i][1]], m[i][2] >> ] : m \in MixesOf(n) } :
            n \in 0..MaxMarkets }

\* rest_mode: "avg" or "us"
RestModes == {"avg", "us"}

RatesInit ==
    /\ ppu_loader \in { PPULoader(df) : df \in Worksheets }
    /\ rate_call = <<>>

\* a call of get_rate
GetRate ==
    /\ rate_call = <<>>
    /\ \E country \in LookupNames :
           rate_call' = [ op |-> "get_rate", country |-> country,
                          outcome |-> get_rate(ppu_loader.country_rates, country) ]
    /\ UNCHANGED <<ppu_loader, g_analyzer, analyzers, decay_loads, ppu_loads, threads,
                   engineVars, solverVars, projectionVars>>

\* a call of compute_blended_audio_rate
ComputeBlendedAudioRate ==
    /\ rate_call = <<>>
    /\ \E market_shares \in MarketMixes, rest_mode \in RestModes :
         \E outcome \in { compute_blended_audio_rate(ppu_loader.country_rates,
                                                     market_shares, rest_mode) } :
           rate_call' = [ op |-> "compute_blended_audio_rate",
                          market_shares |-> market_shares, rest_mode |-> rest_mode,
                          outcome |-> outcome ]
    /\ UNCHANGED <<ppu_loader, g_analyzer, analyzers, decay_loads, ppu_loads, threads,
                   engineVars, solverVars, projectionVars>>

RatesNext == GetRate \/ ComputeBlendedAudioRate

InitRates ==
    /\ RatesInit
    /\ g_analyzer = 0
    /\ analyzers = <<>>
    /\ decay_loads = 0
    /\ ppu_loads = 0
    /\ threads = <<>>
    /\ EngineIdle
    /\ SolverIdle
    /\ ProjectionIdle

SpecRates == InitRates /\ [][RatesNext]_vars

(* Claims about the rate table *)

\* the name is, apart from case and blanks around it, a loaded country or an
\* alias of one
Resolves(country_rates, country) ==
    \/ Loaded(country_rates, upper(strip(country)))
    \/ \E a \in COUNTRY_ALIASES :
           a[1] = lower(strip(country)) /\ Loaded(country_rates, a[2])

\* the loaded country a name that resolves stands for
Resolved(country_rates, country) ==
    IF Loaded(country_rates, upper(strip(country))) THEN upper(strip(country))
    ELSE (CHOOSE a \in COUNTRY_ALIASES : a[1] = lower(strip(country)))[2]

BlendCalled == rate_call # <<>> /\ rate_call.op = "compute_blended_audio_rate"

\* sum of the shares of the mix, in percent
TotalPercent(market_shares) ==
    SumSeq([ n \in 1..Len(market_shares) |-> market_shares[n][2] ])

\* the blended rate of the formula as the fraction num / den, in whole numbers:
\* with the rates in units and the shares in percent, and row_rate = total / count,
\* sum share_c * rate_c + (1 - sum share_c) * row_rate is
\* (count * sum percent_c * rate_c + (100 - sum percent_c) * total)
\*     / (100 * RateUnit * count)
BlendFormula(country_rates, market_shares, rest_mode) ==
    LET positive == PositiveAudioRates(country_rates)
        count == IF rest_mode = "us" \/ positive = <<>> THEN 1 ELSE Len(positive)
        total == IF rest_mode = "us"
                 THEN (IF Loaded(country_rates, "USA")
                       THEN RateOf(country_rates, "USA").audio_rate ELSE 0)
                 ELSE SumSeq(positive)
        listed == SumSeq([ n \in 1..Len(market_shares) |->
                             market_shares[n][2]
                               * RateOf(country_rates,
                                        Resolved(country_rates,
                                                 market_shares[n][1])).audio_rate ])
    IN  [ num |-> count * listed + (100 - TotalPercent(market_shares)) * total,
          den |-> 100 * RateUnit * count ]

\* relative tolerance of the comparison of a float with a fraction: 1e-9
BlendTolerance == FDiv(FOne, FromInt(10^9))

\* the float x is the fraction within the tolerance
IsFraction(x, fraction) ==
    LET scaled == FMul(x, FromInt(fraction.den))
        num == FromInt(fraction.num)
    IN  scaled = num \/ FLess(FAbsDiff(scaled, num), FMul(BlendTolerance, num))

\* every name of the mix resolves, and so does the USA where its rate is asked for
MixResolves(country_rates, market_shares, rest_mode) ==
    /\ \A n \in 1..Len(market_shares) : Resolves(country_rates, market_shares[n][1])
    /\ (rest_mode = "us" /\ TotalPercent(market_shares) < 100)
           => Loaded(country_rates, "USA")

\* C19: compute_blended_audio_rate fails with the invalid-mix error, returning
\* no rate, whenever the shares sum to more than 1; otherwise, for a mix of
\* countries of the table, it returns sum over the listed countries of
\* share_c * rate_c plus (1 - sum of the shares) * row_rate, row_rate being the
\* average of the positive audio rates in mode avg and the rate of the USA in
\* mode us.
C19_BlendedAudioRate ==
    BlendCalled =>
        IF TotalPercent(rate_call.market_shares) > 100
        THEN rate_call.outcome = Failed(InvalidMix)
        ELSE MixResolves(ppu_loader.country_rates, rate_call.market_shares,
                         rate_call.rest_mode)
               => /\ rate_call.outcome.error = None
                  /\ IsFraction(rate_call.outcome.value[1],
                                BlendFormula(ppu_loader.country_rates,
                                             rate_call.market_shares,
                                             rate_call.rest_mode))

\* C19 witness: a rate was returned for a mix of two countries of the table
\* whose shares leave a rest of the world, a country without an audio rate
\* being loaded
C19_Witness ==
    /\ BlendCalled
    /\ Len(rate_call.market_shares) = 2
    /\ TotalPercent(rate_call.market_shares) < 100
    /\ MixResolves(ppu_loader.country_rates, rate_call.market_shares, rate_call.rest_mode)
    /\ rate_call.outcome.error = None
    /\ rate_call.outcome.value[1] # FZero
    /\ \E i \in 1..Len(ppu_loader.country_rates) :
           ppu_loader.country_rates[i].audio_rate = 0

\* C20: a lookup returns a rate only when the name is, apart from case, a
\* loaded country or an alias of one; for every other name, the empty string
\* and a fragment of a name included, get_rate fails with the unknown-country
\* error.
C20_UnknownCountryFails ==
    (rate_call # <<>> /\ rate_call.op = "get_rate") =>
        IF Resolves(ppu_loader.country_rates, rate_call.country)
        THEN rate_call.outcome.error = None
        ELSE rate_call.outcome = Failed(UnknownCountry)

-----------------------------------------------------------------------------
(* Claims about the artist's break-even year                               *)
(* (src/src/projector/npv_calculator.py)                                   *)

\* the viability evaluation has returned
ViabilityEvaluated == viability # <<>>

\* the artist's royalties of the years 1..y of the evaluation, summed
CumulativeRoyalty(y) == SumSeq(SubSeq(viability.result.artist_pay, 1, y))

\* C21 as stated: the break-even year of the viability evaluation is the first
\* year y in 1..10 at which the cumulative artist royalty is >= 0, and None
\* only if there is no such year.
C21_BreakevenNonNegative ==
    ViabilityEvaluated =>
        LET breakeven_year == viability.result.artist_metrics.breakeven_year
        IN  IF \E y \in 1..NumYears : CumulativeRoyalty(y) >= 0
            THEN /\ breakeven_year # None
                 /\ CumulativeRoyalty(breakeven_year[1]) >= 0
                 /\ \A y \in 1..(breakeven_year[1] - 1) : CumulativeRoyalty(y) < 0
            ELSE breakeven_year = None

\* C21 (amended): the break-even year of the viability evaluation is the first
\* year y in 1..10 at which the cumulative artist royalty is > 0, and None
\* exactly if there is no such year.
C21_BreakevenPositive ==
    ViabilityEvaluated =>
        LET breakeven_year == viability.result.artist_metrics.breakeven_year
        IN  IF \E y \in 1..NumYears : CumulativeRoyalty(y) > 0
            THEN /\ breakeven_year # None
                 /\ CumulativeRoyalty(breakeven_year[1]) > 0
                 /\ \A y \in 1..(breakeven_year[1] - 1) : CumulativeRoyalty(y) <= 0
            ELSE breakeven_year = None

\* C21 witness: an evaluation whose artist is paid nothing in year 1 and
\* breaks even in a later year
C21_Witness ==
    /\ ViabilityEvaluated
    /\ CumulativeRoyalty(1) = 0
    /\ viability.result.artist_metrics.breakeven_year # None
    /\ viability.result.artist_metrics.breakeven_year[1] > 1

-----------------------------------------------------------------------------
(* Claims about a profit split under a heavy expense                       *)
(* (src/src/pricer/model.py)                                               *)

\* a profit split at 50% was evaluated with an advance of 0.6 of the ten-year
\* gross and no marketing, the gross positive in every year, and then the
\* equivalent distribution deal at the same cost
HeavyProfitSplitCompared ==
    /\ viability # <<>>
    /\ "equivalent" \in DOMAIN viability
    /\ request.deal_type = "profit_split"
    /\ request.deal_percent = 50
    /\ viability.result.advance = HeavyAdvance(request)
    /\ viability.result.marketing = 0
    /\ \A y \in 1..NumYears : AnnualGross(RequestEngine(request))[y] > 0

\* net profit of the row of year y: label_in + artist_out
RowNetProfit(y) == viability.result.label_share[y] + viability.result.artist_pay[y]

LabelNpvLower ==
    viability.result.label_metrics.label_npv < viability.equivalent.label_metrics.label_npv

\* C22 as stated: for a profit split with deal_percent = 0.50 and advance =
\* 0.6 * (ten-year gross), the gross positive in every year, at least one of
\* the ten rows has net profit 0, and the label NPV is strictly lower than that
\* of the equivalent distribution deal at the same cost.
C22_SomeYearWithoutProfit ==
    HeavyProfitSplitCompared =>
        /\ \E y \in 1..NumYears : RowNetProfit(y) = 0
        /\ LabelNpvLower

\* C22 (amended): for such a profit split every one of the ten rows has a net
\* profit above 0, the gross of the year less the expense of the year, and the
\* label NPV is strictly lower than that of the equivalent distribution deal at
\* the same cost.
C22_EveryYearWithProfit ==
    HeavyProfitSplitCompared =>
        /\ \A y \in 1..NumYears :
               /\ RowNetProfit(y) > 0
               /\ RowNetProfit(y) =
                      LET gross_rev == AnnualGross(RequestEngine(request))[y]
                      IN  gross_rev - (gross_rev * HeavyAdvance(request))
                                          \div TotalRevenue(RequestEngine(request))
        /\ LabelNpvLower

\* C22 witness: the two deals were compared, the label NPV of the profit split
\* being negative
C22_Witness ==
    /\ HeavyProfitSplitCompared
    /\ viability.result.label_metrics.label_npv < 0

-----------------------------------------------------------------------------
(* Claims about the two decay modes                                        *)
(* (src/src/pricer/decay_weekly.py, src/src/pricer/model.py)               *)

\* compare_decay_modes: annual_revenues, the year totals of annual mode
AnnualModeRevenues(week1_revenue, excel_multipliers) ==
    Bind(FMul(week1_revenue, FromInt(53)), LAMBDA annual_year1 :
    SubSeq([ year \in 1..NumYears |->
               FMul(annual_year1, NormalizedMultiplier(excel_multipliers, year)) ],
           1, NumYears))

\* the tolerance of the comparison of the two modes: 1e-9
ModeTolerance == FDiv(FOne, FromInt(10^9))

\* a is b within the tolerance of the comparison, for floats >= 0
ModesAgree(a, b) == a = b \/ FLess(FAbsDiff(a, b), ModeTolerance)

\* analyze_deal has returned a result in weekly decay mode at the peak, from
\* the weekly curve
WeeklyModeServed ==
    /\ analysis # <<>>
    /\ analysis.pc = "done"
    /\ analysis.request.via = "analyze_deal"
    /\ analysis.inputs.decay_mode = "weekly"
    /\ weekly_result # <<>>
    /\ weekly_result.pc = "done"

\* the yearly gross revenues analyze_deal reports in annual decay mode for
\* the inputs of the analysis served
AnnualModeGross ==
    YearlyGross(AnnualYear1TotalRev(analysis), analysis.rate_inputs.decay_multipliers)

\* C23: for the same weekly revenue and the same annual multipliers, annual
\* decay mode and weekly decay mode give the same ten annual gross totals
\* within 1e-9, year 1 included: those of compare_decay_modes, and those
\* analyze_deal reports in the two modes.
C23_DecayModesAgree ==
    WeeklyModeServed =>
        /\ \A y \in 1..NumYears :
               ModesAgree(weekly_result.annual_revenues[y],
                          AnnualModeRevenues(analysis.week0_revenue.abs,
                                             curve_args.excel_multipliers)[y])
        /\ \A y \in 1..NumYears :
               ModesAgree(analysis.result.gross_revenue[y].abs, AnnualModeGross[y].abs)

-----------------------------------------------------------------------------
(* Claims about the levels of year 1 of the unshifted curve                *)
(* (src/src/pricer/decay_curve.py)                                         *)

\* build_unshifted_level_curve has built year 1 of the curve
Year1Built == curve_result # <<>> /\ Len(curve_result.level_curve) >= WeeksPerYear

\* C24: in the unshifted level curve L[1] = 1.0 and L[t] = L[t-1] * r[t-1]
\* for every t in 2..52, r[1..52] being the 52 week-over-week rates in their
\* given order (the first rate takes L[1] to L[2]); the curve returned has
\* exactly 520 entries.
C24_Year1FromRatesInOrder ==
    Year1Built =>
        /\ curve_result.level_curve[1] = FOne
        /\ \A t \in 2..WeeksPerYear :
               curve_result.level_curve[t] =
                   FMul(curve_result.level_curve[t - 1],
                        WowRates(curve_args.wow_percents)[t - 1])
        /\ CurveBuilt => Len(curve_result.level_curve) = NumYears * WeeksPerYear

-----------------------------------------------------------------------------
(* Claims about the recoup week (src/src/pricer/payback.py)                *)

\* the weekly label inflow of the recoupment waterfall of the request at cost c
WeeklyInflow(req, c) ==
    compute_weekly_cashflows(WeeklyGrossSeries(req), LabelShare(req), c,
                             req.advance_share, req.marketing_recoupable)

\* week is the first week at which the cumulative inflow is at least c, or
\* None when no week of the series is; no weekly inflow is negative, so the
\* cumulative inflow never decreases and it is enough to look at the week
\* itself and the week before it, or at the last week of the series
FirstWeekOf(weekly_label_cash_in, c, week) ==
    /\ \A w \in 1..Len(weekly_label_cash_in) : weekly_label_cash_in[w] >= 0
    /\ IF week = None
       THEN SumRange(weekly_label_cash_in, 1, Len(weekly_label_cash_in)) < c
       ELSE /\ week[1] \in 1..Len(weekly_label_cash_in)
            /\ SumRange(weekly_label_cash_in, 1, week[1]) >= c
            /\ week[1] > 1 => SumRange(weekly_label_cash_in, 1, week[1] - 1) < c

\* week is the first week at which the cumulative inflow of the request at
\* cost c is at least c, or None when no week of the series is
FirstWeekRecouped(req, c, week) ==
    Bind(WeeklyInflow(req, c), LAMBDA weekly_label_cash_in :
         FirstWeekOf(weekly_label_cash_in, c, week))

\* C25: compute_recoup_week returns the first 1-indexed week w at which the
\* cumulative weekly label inflow of the recoupment waterfall over the weeks
\* 1..w is at least total_cost, and None exactly when the cumulative inflow
\* over the whole series never reaches total_cost; for the cost of the
\* recommendation and for every probed cost.
C25_RecoupWeekIsFirst ==
    payback_rec # <<>> =>
        /\ FirstWeekRecouped(request, payback_rec.max_total_cost, payback_rec.recoup_week)
        /\ \A c \in ProbeCosts(request) :
               FirstWeekRecouped(request, c,
                                 compute_recoup_week(WeeklyGrossSeries(request),
                                                     LabelShare(request), c,
                                                     request.advance_share,
                                                     request.marketing_recoupable))

\* a recommendation whose cost is recouped after the first week, for a request
\* one of whose probed costs is never recouped
C25_Witness ==
    /\ payback_rec # <<>>
    /\ payback_rec.max_total_cost > 0
    /\ payback_rec.recoup_week # None
    /\ payback_rec.recoup_week[1] > 1
    /\ \E c \in ProbeCosts(request) :
           compute_recoup_week(WeeklyGrossSeries(request), LabelShare(request), c,
                               request.advance_share, request.marketing_recoupable) = None

-----------------------------------------------------------------------------
(* Claims about the windows of the shifted years                           *)
(* (src/src/pricer/decay_curve.py, src/src/deal_analysis.py)               *)

\* the weeks of shifted year y for k weeks after the peak:
\* (1 + k) + 52 (y - 1) .. (1 + k) + 52 y - 1
YearWindow(k, y) ==
    ((1 + k) + WeeksPerYear * (y - 1)) .. ((1 + k) + WeeksPerYear * y - 1)

\* the ten windows have 52 weeks each, follow one another without a gap or an
\* overlap from week 1 + k on, and lie inside a curve of the given length
WindowsInside(k, length) ==
    /\ \A y \in 1..NumYears : Cardinality(YearWindow(k, y)) = WeeksPerYear
    /\ \A y \in 1..NumYears : YearWindow(k, y) \subseteq 1..length
    /\ \A y, z \in 1..NumYears : y # z => YearWindow(k, y) \cap YearWindow(k, z) = {}
    /\ UNION { YearWindow(k, y) : y \in 1..NumYears }
           = (1 + k)..(k + NumYears * WeeksPerYear)

\* the curve is the unshifted curve of 520 weeks followed by extra_weeks
\* weeks, each the week before it times d_10
ExtendedBy(extended, level_curve, d_10, extra_weeks) ==
    /\ Len(extended) = NumYears * WeeksPerYear + extra_weeks
    /\ SubSeq(extended, 1, NumYears * WeeksPerYear) = level_curve
    /\ \A w \in (NumYears * WeeksPerYear + 1)..Len(extended) :
           extended[w] = FMul(extended[w - 1], d_10)

\* the revenue of the 52 levels of the window of year y
WindowTotal(extended, k, scale_audio, scale_video, blended_audio_rate, video_rate, y) ==
    Bind(FSum([ j \in 1..WeeksPerYear |->
                  extended[(1 + k) + WeeksPerYear * (y - 1) + j - 1] ]), LAMBDA level_sum :
    FAdd(FMul(FMul(scale_audio, level_sum), blended_audio_rate),
         FMul(FMul(scale_video, level_sum), video_rate)))

\* analyze_deal has returned the result of a shifted curve with revenue
ShiftedServed ==
    /\ analysis # <<>>
    /\ analysis.pc = "done"
    /\ analysis.request.via = "analyze_deal"
    /\ analysis.inputs.decay_mode = "weekly"
    /\ analysis.rate_inputs.weekly_rates
    /\ analysis.inputs.weeks_post_peak > 0
    /\ analysis.result.year1_total_rev.abs # FZero

\* the shifted years of the result served are the windows of the curve
\* extended to 520 + k weeks
ShiftedWindowsExact ==
    LET k   == analysis.inputs.weeks_post_peak
        d_10 == curve_result.yearly_decay_factors[NumYears][1]
    IN  Bind(extend_curve_beyond_520(curve_result.level_curve, d_10, k), LAMBDA extended :
        Bind(ScaleFactor(analysis.eff_weekly_audio.abs, extended[1 + k]), LAMBDA scale_audio :
        Bind(ScaleFactor(analysis.eff_weekly_video.abs, extended[1 + k]), LAMBDA scale_video :
        Bind([ y \in 1..NumYears |->
                 WindowTotal(extended, k, scale_audio, scale_video,
                             analysis.rate_inputs.blended_audio_rate,
                             analysis.rate_inputs.video_rate, y) ], LAMBDA totals :
        /\ ExtendedBy(extended, curve_result.level_curve, d_10, k)
        /\ WindowsInside(k, Len(extended))
        /\ analysis.result.year1_total_rev.abs = totals[1]
        /\ \A y \in 1..NumYears :
               analysis.result.decay_multipliers[y] = FDiv(totals[y], totals[1])))))

\* DealAnalyzer.analyze has returned a result in track-level mode
TrackLevelServed ==
    /\ analysis # <<>>
    /\ analysis.pc = "done"
    /\ analysis.request.via = "analyze"
    /\ analysis.request.use_track_level_decay
    /\ analysis.track_level # <<>>

\* the weeks after the peak of the tracks of the request served
TrackWeeks ==
    { analysis.request.track_data[i].weeks_since_release :
          i \in 1..Len(analysis.request.track_data) }

\* what every track with streams adds to the ten years is the revenue of the
\* windows of its own k, inside the curve extended for the oldest track; the
\* annual totals of a catalog of one track are those of its windows
TrackWindowsExact ==
    LET tracks    == analysis.request.track_data
        d_10      == curve_result.yearly_decay_factors[NumYears][1]
        max_weeks == CHOOSE w \in TrackWeeks : \A v \in TrackWeeks : v <= w
    IN  Bind(extend_curve_beyond_520(curve_result.level_curve, d_10, Max(0, max_weeks)),
             LAMBDA extended :
        /\ ExtendedBy(extended, curve_result.level_curve, d_10, Max(0, max_weeks))
        /\ \A i \in 1..Len(tracks) :
               LET k     == Max(0, tracks[i].weeks_since_release)
                   audio == SFromInt(tracks[i].weekly_us_audio_streams)
                   video == SFromInt(tracks[i].weekly_us_video_streams)
                   scale_audio == IF SPositive(audio) THEN FDiv(audio.abs, extended[1 + k])
                                  ELSE FZero
                   scale_video == IF SPositive(video) THEN FDiv(video.abs, extended[1 + k])
                                  ELSE FZero
                   added == TrackTotals(extended, k, audio, video,
                                        Rate(analysis.request.audio_rate),
                                        Rate(analysis.request.video_rate))
               IN  (SPositive(audio) \/ SPositive(video)) =>
                       /\ WindowsInside(k, Len(extended))
                       /\ \A y \in 1..NumYears :
                              added[y] = WindowTotal(extended, k, scale_audio, scale_video,
                                                     Rate(analysis.request.audio_rate),
                                                     Rate(analysis.request.video_rate), y)
                       /\ (Len(tracks) = 1 /\ analysis.request.extra_tracks = 0) =>
                              \A y \in 1..NumYears :
                                  analysis.track_level.annual_totals[y]
                                      = FAdd(FZero, added[y]))

\* C26: for weeks_post_peak k >= 0 shifted year y sums exactly the 52 levels
\* of the weeks (1 + k) + 52 (y - 1) .. (1 + k) + 52 y - 1; the ten windows
\* are contiguous and disjoint, and the curve is extended beyond week 520 by
\* repeated multiplication by d_10 to 520 + k weeks, so that no window is
\* truncated.  The same holds for every track in track-level mode with the
\* track's own k, inside the curve extended for the oldest track.
C26_ShiftedWindows ==
    /\ ShiftedServed => ShiftedWindowsExact
    /\ TrackLevelServed => TrackWindowsExact

\* a result with revenue from a curve shifted by 26 weeks, whose last window
\* ends 26 weeks beyond week 520
C26_Witness ==
    /\ ShiftedServed
    /\ analysis.inputs.weeks_post_peak = 26
    /\ Len(curve_result.level_curve) = NumYears * WeeksPerYear

-----------------------------------------------------------------------------
(* Claims about the expenses of a profit split in the rows shown           *)
(* (src/src/deal_analysis.py, src/src/pricer/model.py)                     *)

\* analyze_deal: display_cash_flows, the rows of the projections, from the
\* recommendation for the 15% target
display_cash_flows(req, rec_15) ==
    LET display_recoup == IF req.marketing_recoupable THEN rec_15.max_total_cost
                          ELSE rec_15.suggested_advance
    IN  compute_cash_flows_with_recoup(RequestEngine(req), display_recoup)

\* the expense of year y when total_cost is allocated to the years of the
\* request in proportion to their gross
AllocatedExpense(req, total_cost, y) ==
    YearExpense(compute_yearly_revenues(RequestEngine(req))[y].gross_rev,
                TotalRevenue(RequestEngine(req)), total_cost)

\* the label's and the artist's cash of the ten rows are the shares of the
\* gross less the allocated expense of total_cost, and the ten expenses sum
\* to total_cost (less than a unit a year is lost in the division)
RowsBearCost(req, label_cash_in, artist_pay, total_cost) ==
    /\ \A y \in 1..NumYears :
           LET gross_rev  == compute_yearly_revenues(RequestEngine(req))[y].gross_rev
               net_profit == NetProfit(gross_rev, AllocatedExpense(req, total_cost, y))
           IN  /\ label_cash_in[y] = PctOf(LabelShare(req), net_profit)
               /\ artist_pay[y] = PctOf(100 - LabelShare(req), net_profit)
    /\ SumSeq([ y \in 1..NumYears |-> AllocatedExpense(req, total_cost, y) ]) <= total_cost
    /\ SumSeq([ y \in 1..NumYears |-> AllocatedExpense(req, total_cost, y) ])
           > total_cost - NumYears

\* C27: for a Profit Split deal the expenses allocated across the ten years
\* in the rows of the viability evaluation and in the rows of the
\* projections of the recommendation sum to the total deal cost (advance +
\* marketing), whether or not marketing_recoupable is set.
C27_ProfitSplitRowsBearTotalCost ==
    /\ (viability # <<>> /\ request.deal_type = "profit_split") =>
           RowsBearCost(request, viability.result.label_share, viability.result.artist_pay,
                        viability.result.total_investment)
    /\ (irr_recs # <<>> /\ request.deal_type = "profit_split") =>
           Bind(display_cash_flows(request, irr_recs[2]), LAMBDA rows :
                RowsBearCost(request,
                             [ y \in 1..NumYears |-> rows[y].label_cash_in ],
                             [ y \in 1..NumYears |-> rows[y].artist_pay ],
                             irr_recs[2].max_total_cost))

-----------------------------------------------------------------------------
(* Claims about the course of the funded distribution waterfall            *)
(* (src/src/pricer/model.py)                                               *)

\* the row of year y is paid at the post-recoup split
PostRecoupSplit(y) ==
    /\ cash_flows[y].label_cash_in = PctOf(engine.label_share, cash_flows[y].gross_rev)
    /\ cash_flows[y].artist_pay = PctOf(engine.artist_share, cash_flows[y].gross_rev)

\* C28: in the Funded Distribution yearly waterfall the unrecouped balance is
\* never negative and never increases from one year to the next; once a year
\* is paid at the post-recoup split, every later year is; and the artist
\* receives 0 in every year that starts with a positive unrecouped balance.
C28_WaterfallNeverTurnsBack ==
    (call.op = "with_recoup" /\ engine.deal_type = "distribution") =>
        /\ \A y \in 1..(NumYears + 1) : UnrecoupedBefore(y) >= 0
        /\ \A y \in Years : UnrecoupedBefore(y + 1) <= UnrecoupedBefore(y)
        /\ \A y, z \in Years : (y < z /\ PostRecoupSplit(y)) => PostRecoupSplit(z)
        /\ \A y \in Years : UnrecoupedBefore(y) > 0 => cash_flows[y].artist_pay = 0

\* a funded distribution that recoups in the course of the ten years, in a
\* year whose gross exceeds the balance, and pays the artist afterwards
C28_Witness ==
    /\ call.op = "with_recoup"
    /\ engine.deal_type = "distribution"
    /\ \E y \in 2..(NumYears - 1) :
           /\ UnrecoupedBefore(y) > 0
           /\ UnrecoupedBefore(y) < cash_flows[y].gross_rev
           /\ UnrecoupedBefore(y + 1) = 0
           /\ ~PostRecoupSplit(y)
           /\ PostRecoupSplit(y + 1)
           /\ cash_flows[y + 1].artist_pay > 0

-----------------------------------------------------------------------------
(* Claims about the recoup week of the payback recommendation              *)
(* (src/src/pricer/payback.py)                                             *)

\* C29: for every deal type, every advance share and both values of
\* marketing_recoupable, the recoup_week of the payback recommendation is,
\* whenever it is not None, at most payback_horizon_weeks: the recommended
\* cost is paid back within the horizon under the weekly waterfall that
\* reports recoup_week.
C29_RecoupWeekWithinHorizon ==
    (payback_rec # <<>> /\ payback_rec.recoup_week # None) =>
        payback_rec.recoup_week[1] <= payback_rec.payback_horizon_weeks

-----------------------------------------------------------------------------
(* Claims about the revenues of the analysis and of the viability          *)
(* evaluation (src/src/deal_analysis.py)                                   *)

\* DealAnalyzer.analyze and DealAnalyzer.analyze_viability have both served
\* the request
BothServed ==
    /\ analysis # <<>>
    /\ analysis.pc = "evaluated"
    /\ viability # <<>>
    /\ viability.request = analysis.request

\* C30: for the same request DealAnalyzer.analyze and
\* DealAnalyzer.analyze_viability use the same year-1 gross revenue and the
\* same ten yearly gross revenues, in aggregate mode and in track-level mode.
C30_SameRevenues ==
    BothServed =>
        /\ viability.year1_total = analysis.result.year1_total_rev
        /\ \A y \in 1..NumYears :
               viability.gross_revenue[y] = analysis.result.gross_revenue[y]

====
